---- MODULE Spec2Model ----
(***************************************************************************)
(* pg_squeeze: online rebuild of a table (squeeze_table) modelled as one   *)
(* sequential backend session running among concurrent transactions that   *)
(* commit row changes and DDL against the source table.                    *)
(***************************************************************************)
EXTENDS Integers, Sequences, FiniteSets, TLC

(* ------------------------------------------------------------------ *)
(* Bounds of the model                                                *)
(* ------------------------------------------------------------------ *)
MaxWrites == 2        \* committed row changes of other sessions per run
MaxDDL == 1           \* committed DDL transactions of other sessions per run
MaxDeviations == 1    \* how many call/relation properties differ from the default
MaxBudgetWrites == 4  \* committed row changes per run of SpecBudget
EventCostMs == 500    \* wall-clock time the decoding and replay of one change takes
MaxRows == 2          \* rows of an index-to-tablespace array
MaxTuples == 5        \* rows the scan of the initial load returns
KiloByte == 4         \* bytes in the unit of maintenance_work_mem (1024 in the code)
SizeofHeapTuple == 2  \* sizeof(HeapTuple), bytes (8 in the code)
InitialBatchMaxSize == 2  \* first batch_max_size (1024 in the code)
MaxAllocSize == 64    \* largest size palloc() accepts, bytes (0x3fffffff in the code)
MaxEvents == 3        \* writes committed while a replay that follows the copy runs
MaxFreeEvents == 2    \* events of a replay that is given any events
MaxCalls == 2         \* calls of squeeze_table() in one session
MaxCallDDL == 1       \* committed DDL transactions during the calls of one session
MaxCallWrites == 1    \* committed row changes during the calls of one session
MaxXid == 6           \* the newest transaction id of a swap
MaxMulti == 3         \* the newest MultiXactId of a swap
MaxAttrs == 3          \* user columns of the relation whose pg_attribute rows are scanned

(* ------------------------------------------------------------------ *)
(* Program constants                                                  *)
(* ------------------------------------------------------------------ *)
InvalidOid == 0
USECS_PER_SEC == 1000000
\* a loop of one attempt more
FiveAttempts == 4 + 1
MaxAttempts == 4

NoLock == "NoLock"
AccessShareLock == "AccessShareLock"
AccessExclusiveLock == "AccessExclusiveLock"

\* pg_class.relreplident
REPLICA_IDENTITY_DEFAULT == "d"
REPLICA_IDENTITY_NOTHING == "n"
REPLICA_IDENTITY_FULL == "f"
REPLICA_IDENTITY_INDEX == "i"

\* OIDs and storage identifiers of the objects that exist at the start
relid_src == 100
toastrelid_src0 == 150
FirstIndexOid == 201
FirstFreeOid == 300
OtherTablespace == 1
\* a tablespace the owner of the table has no CREATE privilege on
NoAclTablespace == 2
\* pg_default and pg_global
MyDatabaseTableSpace == 1663
GLOBALTABLESPACE_OID == 1664

\* the name of the replication slot is this text followed by the database OID
REPL_SLOT_BASE_NAME == "pg_squeeze_slot_"
MyDatabaseId == 1
OtherDatabaseId == 2
\* another table of the database of the call
relid_other == 110

(* ------------------------------------------------------------------ *)
(* Values the inputs are drawn from                                   *)
(* ------------------------------------------------------------------ *)
Keys == 1..4                 \* identity key values a row can have
WriteKeys == {1, 2}          \* the keys the concurrent writes of Spec use
Vals == {"a", "z"}
NoRow == "-"
XlockTimes == {0, 500, 1000, 1500}    \* squeeze.max_xlock_time, milliseconds

VARIABLES
    \* ---- the calling context and the relation (inputs of the call)
    cfg,                \* properties of the call and of the relation
    \* ---- control state of squeeze_table()
    pc,                 \* position in squeeze_table() / perform_final_merge()
    errmsg,             \* message of the ERROR that ended the call ("" if none)
    \* ---- locals of squeeze_table()
    cat_state,          \* CatalogState captured by get_catalog_state()
    ident_idx_src,      \* RelationGetReplicaIndex(rel_src)
    indexes_src,        \* OIDs copied from cat_state->indexes
    indexes_dst,        \* OIDs of the transient indexes
    relid_dst,          \* OID of the transient table (InvalidOid: none)
    i_attempt,          \* loop variable i of the final-merge loop
    source_finalized,
    \* ---- locals of perform_final_merge()
    success,
    t_end,              \* deadline: <<>> when t_end_ptr is NULL, else <<tv_sec, tv_usec>>
    end_of_wal,         \* end marker of the current drain
    \* ---- session resources
    lock_src,           \* lock mode the session holds on the source table
    lock_idx,           \* index OIDs the session holds AccessExclusiveLock on
    MyReplicationSlot,  \* TRUE iff the session has its replication slot acquired
    reader,             \* WAL position the decoding context has consumed
    snap_hist,          \* rows visible to the historic snapshot (<<>> before it exists)
    \* ---- catalogs as the session sees them (own uncommitted changes included)
    pg_class,           \* OID -> pg_class row
    pg_index,           \* set of pg_index rows of the source table
    pg_attribute,       \* xmin of the pg_attribute rows of the user columns, by attnum
    committed,          \* pg_class rows as other sessions see them
    \* ---- storage
    heap,               \* relfilenode -> rows (key -> value)
    \* ---- the rest of the cluster
    wal,                \* changes of the source table committed since the call started
    now,                \* wall clock, microseconds
    nextXid,            \* next transaction id
    nextOid,            \* next OID / relfilenode
    writesLeft,
    ddlLeft,
    rival,              \* a call of squeeze_table() in another session
    load,               \* the locals of perform_initial_load() while it runs
    frame,              \* the locals of a function of the file that is run on its own
    \* ---- history (observations of the run, not program state)
    hist

vars == <<cfg, pc, errmsg, cat_state, ident_idx_src, indexes_src, indexes_dst,
          relid_dst, i_attempt, source_finalized, success, t_end, end_of_wal,
          lock_src, lock_idx, MyReplicationSlot, reader, snap_hist, pg_class, pg_index,
          pg_attribute, committed, heap, wal, now, nextXid, nextOid,
          writesLeft, ddlLeft, rival, load, frame, hist>>

\* locals of squeeze_table() and perform_final_merge()
locals == <<cat_state, ident_idx_src, indexes_src, indexes_dst, relid_dst,
            i_attempt, source_finalized, success, t_end, end_of_wal>>
\* what the other sessions own
env == <<wal, nextXid, writesLeft, ddlLeft, pg_index, pg_attribute>>

(* ------------------------------------------------------------------ *)
(* Small helpers                                                      *)
(* ------------------------------------------------------------------ *)
Put(f, k, v) == [x \in DOMAIN f \cup {k} |-> IF x = k THEN v ELSE f[x]]
Restrict(f, S) == [x \in DOMAIN f \cap S |-> f[x]]
Range(q) == {q[n] : n \in DOMAIN q}

\* the elements of a finite set of integers in increasing order
RECURSIVE SortedSeq(_)
SortedSeq(S) ==
    IF S = {} THEN <<>>
    ELSE LET m == CHOOSE x \in S : \A y \in S : x <= y
         IN <<m>> \o SortedSeq(S \ {m})

(* ------------------------------------------------------------------ *)
(* The call and the relation it is given                              *)
(* ------------------------------------------------------------------ *)
\* The 5th argument: a NULL, or an array of names with its number of
\* dimensions, the length of its second dimension, its lower bounds, whether
\* it holds a NULL element, and its rows <<index name, tablespace name>>
NoArray == [isnull |-> TRUE, ndim |-> 0, ncols |-> 0, lbound |-> 1, nulls |-> FALSE,
            rows |-> <<>>]

TableKinds == {"pk", "pk2", "nopk", "using", "using_dropped", "using_dropped0",
               "invalid_idx"}

DefaultCfg ==
    [relkind        |-> "r",       \* RELKIND_RELATION
     relpersistence |-> "p",       \* RELPERSISTENCE_PERMANENT
     relisshared    |-> FALSE,
     mapped         |-> FALSE,     \* RelationIsMapped / relfilenode = InvalidOid
     system         |-> FALSE,     \* OID below FirstNormalObjectId
     in_use         |-> FALSE,     \* CheckTableNotInUse would fail (open cursor)
     relreplident   |-> REPLICA_IDENTITY_DEFAULT,
     tbl            |-> "pk",      \* the index set of the table
     toast          |-> TRUE,      \* the table has a TOAST relation
     tbspname       |-> "null",    \* 4th argument: NULL or the name of a tablespace
     ind_tbsp       |-> NoArray,   \* 5th argument: NULL or index-to-tablespace mappings
     privileged     |-> TRUE,      \* superuser() || has_rolreplication()
     trapped        |-> FALSE,     \* called from PL/pgSQL with the ERROR trapped
     xlock_time     |-> 0]         \* squeeze.max_xlock_time

CfgSpace ==
    [relkind: {"r", "v"}, relpersistence: {"p", "u"}, relisshared: BOOLEAN,
     mapped: BOOLEAN, system: BOOLEAN, in_use: BOOLEAN,
     relreplident: {REPLICA_IDENTITY_DEFAULT, REPLICA_IDENTITY_NOTHING,
                    REPLICA_IDENTITY_FULL, REPLICA_IDENTITY_INDEX},
     tbl: TableKinds, toast: BOOLEAN,
     tbspname: {"null", "valid", "missing", "pg_global", "noacl"}, ind_tbsp: {NoArray},
     privileged: BOOLEAN, trapped: BOOLEAN, xlock_time: XlockTimes]

Deviations(c) == Cardinality({f \in DOMAIN DefaultCfg : c[f] # DefaultCfg[f]})

\* relreplident and the index set go together: USING INDEX tables are one deviation
Coherent(c) ==
    (c.tbl \in {"using", "using_dropped", "using_dropped0"})
        <=> (c.relreplident = REPLICA_IDENTITY_INDEX)

Configs ==
    {c \in CfgSpace :
        /\ Coherent(c)
        /\ Deviations(c) <= MaxDeviations + (IF c.relreplident = REPLICA_IDENTITY_INDEX THEN 1 ELSE 0)}

\* pg_index rows of the source table at the start
IndexRow(oid, ok, primary, replident) ==
    [indexrelid |-> oid, xmin |-> 1, ok |-> ok, indisprimary |-> primary,
     indisreplident |-> replident]

InitialIndexes(kind) ==
    CASE kind = "pk"             -> {IndexRow(FirstIndexOid, TRUE, TRUE, FALSE)}
      [] kind = "pk2"            -> {IndexRow(FirstIndexOid, TRUE, TRUE, FALSE),
                                     IndexRow(FirstIndexOid + 1, TRUE, FALSE, FALSE)}
      [] kind = "nopk"           -> {IndexRow(FirstIndexOid + 1, TRUE, FALSE, FALSE)}
      [] kind = "using"          -> {IndexRow(FirstIndexOid + 1, TRUE, FALSE, TRUE)}
      [] kind = "using_dropped"  -> {IndexRow(FirstIndexOid, TRUE, FALSE, FALSE)}
      [] kind = "using_dropped0" -> {}
      [] kind = "invalid_idx"    -> {IndexRow(FirstIndexOid, FALSE, TRUE, FALSE)}

\* the names of the indexes
IndexName(oid) ==
    IF oid = FirstIndexOid THEN "t_pkey"
    ELSE IF oid = FirstIndexOid + 1 THEN "t_idx"
    ELSE "t_idx1"

\* a pg_class row; "owner" stands for the pg_depend / pg_index link of a TOAST
\* relation or an index to its table
ClassRow(xmin, relfilenode, tbsp, toast, kind, name, owner) ==
    [xmin |-> xmin, relfilenode |-> relfilenode, reltablespace |-> tbsp,
     reltoastrelid |-> toast, relkind |-> kind, relname |-> name, owner |-> owner]

TransientName == "tmp_100"      \* "tmp_%u" of relid_src
\* "pg_toast_%u" of a relation, with the suffix swap_toast_names() may add
ToastName(relid, suffix) == <<"pg_toast_", relid, suffix>>

InitialRows == [k \in Keys |-> IF k = 1 THEN "a" ELSE NoRow]

InitialClass(c) ==
    LET idx == {r.indexrelid : r \in InitialIndexes(c.tbl)}
        oids == {relid_src} \cup idx \cup (IF c.toast THEN {toastrelid_src0} ELSE {})
    IN [o \in oids |->
           IF o = relid_src
           THEN ClassRow(1, IF c.mapped THEN InvalidOid ELSE relid_src, 0,
                         IF c.toast THEN toastrelid_src0 ELSE InvalidOid, c.relkind,
                         "t", InvalidOid)
           ELSE IF o = toastrelid_src0
           THEN ClassRow(1, o, 0, InvalidOid, "t", ToastName(relid_src, ""), relid_src)
           ELSE ClassRow(1, o, 0, InvalidOid, "i", IndexName(o), relid_src)]

InitSession(c, rows) ==
    /\ cfg = c
    /\ pc = "start"
    /\ errmsg = ""
    /\ cat_state = <<>>
    /\ ident_idx_src = InvalidOid
    /\ indexes_src = <<>>
    /\ indexes_dst = <<>>
    /\ relid_dst = InvalidOid
    /\ i_attempt = 0
    /\ source_finalized = FALSE
    /\ success = FALSE
    /\ t_end = <<>>
    /\ end_of_wal = 0
    /\ lock_src = NoLock
    /\ lock_idx = {}
    /\ MyReplicationSlot = FALSE
    /\ reader = 0
    /\ snap_hist = <<>>
    /\ pg_class = InitialClass(c)
    /\ pg_index = InitialIndexes(c.tbl)
    /\ pg_attribute = <<1>>
    /\ committed = InitialClass(c)
    /\ heap = [f \in {InitialClass(c)[relid_src].relfilenode} |-> rows]
    /\ wal = <<>>
    /\ now = 0
    /\ nextXid = 2
    /\ nextOid = FirstFreeOid
    /\ rival = [pc |-> "none", db |-> MyDatabaseId, relid |-> InvalidOid, err |-> ""]
    /\ hist = [initRows |-> rows, startpos |-> 0, applied |-> <<>>,
               ddl |-> <<>>, calls |-> 0, t_start |-> 0, backlog |-> 0,
               held |-> 0, swaps |-> 0, lock_call |-> 0, unlock_call |-> 0,
               pre |-> <<>>]

\* no call of perform_initial_load() is looked at
NoLoad == [pc |-> "none"]

\* no other function of the file is run on its own
NoFrame == [fn |-> "none"]

InitWith(c, rows) ==
    /\ InitSession(c, rows)
    /\ load = NoLoad
    /\ frame = NoFrame

Init ==
    \E c \in Configs :
        /\ InitWith(c, InitialRows)
        /\ writesLeft = MaxWrites
        /\ ddlLeft = MaxDDL

(* ------------------------------------------------------------------ *)
(* CatalogFingerprint: get_catalog_state() and check_catalog_changes() *)
(* ------------------------------------------------------------------ *)
OidIsValid(oid) == oid # InvalidOid

\* prerequisites without the test for use by the calling session
CursorNotChecked(c) ==
    IF c.relkind # "r" THEN "is not a table"
    ELSE IF c.relpersistence # "p" THEN "is not a regular table"
    ELSE IF c.relisshared THEN "is shared relation"
    ELSE IF c.mapped THEN "is mapped relation"
    ELSE IF c.system THEN "is not user relation"
    ELSE ""

\* check_prerequisites(): the message of the first failing test, "" if none
check_prerequisites(c) ==
    IF c.relkind # "r" THEN "is not a table"
    ELSE IF c.relpersistence # "p" THEN "is not a regular table"
    ELSE IF c.relisshared THEN "is shared relation"
    ELSE IF c.mapped THEN "is mapped relation"
    ELSE IF c.system THEN "is not user relation"
    ELSE IF c.in_use THEN "is being used by active queries in this session"
    ELSE ""

\* RelationGetReplicaIndex(): the primary key for REPLICA IDENTITY DEFAULT, the
\* index marked indisreplident for USING INDEX, InvalidOid otherwise
RelationGetReplicaIndex(replident, rows) ==
    LET pkey == {r.indexrelid : r \in {x \in rows : x.indisprimary /\ x.ok}}
        cand == {r.indexrelid : r \in {x \in rows : x.indisreplident /\ x.ok}}
    IN IF replident = REPLICA_IDENTITY_DEFAULT /\ pkey # {} THEN CHOOSE o \in pkey : TRUE
       ELSE IF replident = REPLICA_IDENTITY_INDEX /\ cand # {} THEN CHOOSE o \in cand : TRUE
       ELSE InvalidOid

\* get_index_info(): the entries are sorted by OID (qsort) and completed from
\* the pg_class rows of the indexes. With an invalid index the scan stops and
\* neither the count nor the entries are delivered.
get_index_info(rows, class, invalid_check_only) ==
    LET found_invalid == \E r \in rows : ~r.ok
        oids == SortedSeq({r.indexrelid : r \in rows})
        row(o) == CHOOSE r \in rows : r.indexrelid = o
        entry(o) == [oid |-> o, xmin |-> row(o).xmin,
                     pg_class_xmin |-> class[o].xmin,
                     relname |-> class[o].relname,
                     reltablespace |-> class[o].reltablespace]
    IN IF found_invalid \/ invalid_check_only
       THEN [found_invalid |-> found_invalid, relninds |-> 0, indexes |-> <<>>]
       ELSE [found_invalid |-> FALSE, relninds |-> Len(oids),
             indexes |-> [n \in 1..Len(oids) |-> entry(oids[n])]]

\* get_attribute_xmins(): one entry per pg_attribute row with attnum > 0, in
\* attnum order. The guard "n++ > relnatts" lets the rows 1..relnatts+1 through.
get_attribute_xmins(attrs, relnatts) ==
    LET k == Len(attrs)
        written == IF k > relnatts + 1 THEN relnatts + 1 ELSE k
    IN [error |-> k > relnatts + 1,
        xmins |-> SubSeq(attrs, 1, IF written < relnatts THEN written ELSE relnatts),
        written |-> written]

\* get_catalog_state()
get_catalog_state(class, rows, attrs) ==
    LET form_class == class[relid_src]
        info == get_index_info(rows, class, FALSE)
        relnatts == Len(attrs)
    IN [relid |-> relid_src,
        form_class |-> [reltoastrelid |-> form_class.reltoastrelid,
                        reltablespace |-> form_class.reltablespace,
                        relnatts |-> relnatts],
        pg_class_xmin |-> form_class.xmin,
        toast_xmin |-> IF OidIsValid(form_class.reltoastrelid)
                       THEN class[form_class.reltoastrelid].xmin ELSE 0,
        indexes |-> info.indexes,
        relninds |-> info.relninds,
        invalid_index |-> info.found_invalid,
        attr_xmins |-> IF ~info.found_invalid /\ relnatts > 0
                       THEN get_attribute_xmins(attrs, relnatts).xmins ELSE <<>>]

\* a check of the pg_class row that does not compare its xmin
PgClassXminIgnored(class, relid, xmin) ==
    IF relid \notin DOMAIN class THEN "Table no longer exists" ELSE ""

\* check_pg_class_changes()
check_pg_class_changes(class, relid, xmin) ==
    IF relid \notin DOMAIN class THEN "Table no longer exists"
    ELSE IF class[relid].xmin # xmin
    THEN "Incompatible DDL or heap rewrite performed concurrently"
    ELSE ""

\* check_attribute_changes()
check_attribute_changes(attrs, old_xmins, relnatts) ==
    IF relnatts = 0 THEN ""
    ELSE LET got == get_attribute_xmins(attrs, relnatts)
         IN IF got.error THEN "Relation has too many attributes"
            ELSE IF \E n \in 1..relnatts :
                        n > Len(got.xmins) \/ old_xmins[n] # got.xmins[n]
            THEN "Table definition changed concurrently"
            ELSE ""

\* check_index_changes()
check_index_changes(rows, class, indexes, relninds) ==
    IF relninds = 0 THEN ""
    ELSE LET new == get_index_info(rows, class, FALSE)
             failed ==
                \/ new.found_invalid
                \/ new.relninds # relninds
                \/ \E n \in 1..relninds :
                      \/ indexes[n].oid # new.indexes[n].oid
                      \/ indexes[n].xmin # new.indexes[n].xmin
                      \/ indexes[n].pg_class_xmin # new.indexes[n].pg_class_xmin
         IN IF failed THEN "Concurrent change of index detected" ELSE ""

\* check_catalog_changes(): the message of the first failing check, "" if none
check_catalog_changes(state, lock_held, class, rows, attrs) ==
    IF lock_held = AccessExclusiveLock THEN ""
    ELSE LET e1 == check_pg_class_changes(class, state.relid, state.pg_class_xmin)
             toast_relid == state.form_class.reltoastrelid
             e2 == IF OidIsValid(toast_relid)
                   THEN check_pg_class_changes(class, toast_relid, state.toast_xmin)
                   ELSE ""
             e3 == check_index_changes(rows, class, state.indexes, state.relninds)
             e4 == check_attribute_changes(attrs, state.attr_xmins,
                                           state.form_class.relnatts)
         IN IF e1 # "" THEN e1
            ELSE IF e2 # "" THEN e2
            ELSE IF e3 # "" THEN e3
            ELSE e4

(* ------------------------------------------------------------------ *)
(* The other sessions: committed row changes and DDL                  *)
(* ------------------------------------------------------------------ *)
Running == pc \notin {"done", "error", "crashed"}

\* the rows other sessions see in the source table
SourceRows == heap[committed[relid_src].relfilenode]

Changes(rows) ==
    {[kind |-> "insert", key |-> k, newkey |-> k, val |-> v] :
        k \in {x \in WriteKeys : rows[x] = NoRow}, v \in Vals}
    \cup
    {c \in [kind : {"update"}, key : WriteKeys, newkey : WriteKeys, val : Vals] :
        /\ rows[c.key] # NoRow
        /\ c.newkey # c.key => rows[c.newkey] = NoRow
        /\ c.newkey = c.key => c.val # rows[c.key]}
    \cup
    {[kind |-> "delete", key |-> k, newkey |-> k, val |-> NoRow] :
        k \in {x \in WriteKeys : rows[x] # NoRow}}

\* what a committed change does to the table it is executed on
Execute(rows, c) ==
    CASE c.kind = "insert" -> [rows EXCEPT ![c.key] = c.val]
      [] c.kind = "update" -> [[rows EXCEPT ![c.key] = NoRow] EXCEPT ![c.newkey] = c.val]
      [] c.kind = "delete" -> [rows EXCEPT ![c.key] = NoRow]

\* A transaction of another session commits one row change. It needs
\* RowExclusiveLock on the table, which conflicts with AccessExclusiveLock only.
EnvWrite ==
    /\ Running
    /\ writesLeft > 0
    /\ lock_src # AccessExclusiveLock
    /\ \E c \in Changes(SourceRows) :
          /\ heap' = [heap EXCEPT ![committed[relid_src].relfilenode] = Execute(@, c)]
          /\ wal' = Append(wal, c)
    /\ writesLeft' = writesLeft - 1
    /\ nextXid' = nextXid + 1
    /\ UNCHANGED <<cfg, pc, errmsg, locals, lock_src, lock_idx, MyReplicationSlot,
                   reader, snap_hist, pg_class, pg_index, pg_attribute, committed,
                   now, nextOid, ddlLeft, rival, load, frame, hist>>

StructuralKinds == {"add_column", "drop_column", "alter_column", "rewrite",
                    "create_index", "drop_index", "invalidate_index", "reindex",
                    "alter_index"}

\* the DDL that committed since the fingerprint was captured
Recorded(kind) == [hist EXCEPT !.ddl = Append(@, kind)]

\* A DDL transaction of another session commits. Only DDL that commits after
\* the capture of the fingerprint is concurrent with what the rebuild knows of
\* the table; earlier DDL is part of the catalog the rebuild starts from.
DDLCommon(kind) ==
    /\ Running
    /\ cat_state # <<>>
    /\ ddlLeft > 0
    /\ ddlLeft' = ddlLeft - 1
    /\ nextXid' = nextXid + 1
    /\ hist' = Recorded(kind)
    /\ UNCHANGED <<cfg, pc, errmsg, locals, lock_src, lock_idx, MyReplicationSlot,
                   reader, snap_hist, wal, now, writesLeft, rival, load, frame>>

\* the same committed update of pg_class rows, seen by everybody
SetClass(upd) ==
    /\ pg_class' = [o \in DOMAIN pg_class |-> IF o \in DOMAIN upd THEN upd[o] ELSE pg_class[o]]
    /\ committed' = [o \in DOMAIN committed |-> IF o \in DOMAIN upd THEN upd[o] ELSE committed[o]]

SourceIndexOids == {r.indexrelid : r \in pg_index}

\* The storage of the heap and of every index is replaced, and the pg_class
\* rows of the table, of its TOAST relation and of its indexes are updated.
RewriteClass(xid) ==
    LET old == committed[relid_src]
        affected == {relid_src} \cup SourceIndexOids
                    \cup (IF OidIsValid(old.reltoastrelid) THEN {old.reltoastrelid} ELSE {})
    IN [o \in affected |->
           IF o = relid_src THEN [committed[o] EXCEPT !.xmin = xid, !.relfilenode = nextOid]
           ELSE IF o \in SourceIndexOids
           THEN [committed[o] EXCEPT !.xmin = xid, !.relfilenode = nextOid + o]
           ELSE [committed[o] EXCEPT !.xmin = xid]]

MoveHeap ==
    LET old == committed[relid_src].relfilenode
    IN heap' = [f \in (DOMAIN heap \ {old}) \cup {nextOid} |->
                   IF f = nextOid THEN heap[old] ELSE heap[f]]

\* ALTER TABLE ... ADD COLUMN (AccessExclusiveLock on the table)
DDL_AddColumn ==
    /\ DDLCommon("add_column")
    /\ lock_src = NoLock
    /\ Len(pg_attribute) < 2
    /\ pg_attribute' = Append(pg_attribute, nextXid)
    /\ SetClass([o \in {relid_src} |-> [committed[o] EXCEPT !.xmin = nextXid]])
    /\ UNCHANGED <<pg_index, heap, nextOid>>

\* ALTER TABLE ... DROP COLUMN: the pg_attribute row is marked dropped
DDL_DropColumn ==
    /\ DDLCommon("drop_column")
    /\ lock_src = NoLock
    /\ \E n \in 1..Len(pg_attribute) :
          pg_attribute' = [pg_attribute EXCEPT ![n] = nextXid]
    /\ UNCHANGED <<pg_class, committed, pg_index, heap, nextOid>>

\* ALTER TABLE ... ALTER COLUMN ... TYPE: new pg_attribute row and heap rewrite
DDL_AlterColumn ==
    /\ DDLCommon("alter_column")
    /\ lock_src = NoLock /\ lock_idx = {}
    /\ \E n \in 1..Len(pg_attribute) :
          pg_attribute' = [pg_attribute EXCEPT ![n] = nextXid]
    /\ SetClass(RewriteClass(nextXid))
    /\ MoveHeap
    /\ nextOid' = nextOid + 1
    /\ UNCHANGED <<pg_index>>

\* VACUUM FULL / CLUSTER: the heap is rewritten
DDL_Rewrite ==
    /\ DDLCommon("rewrite")
    /\ lock_src = NoLock /\ lock_idx = {}
    /\ SetClass(RewriteClass(nextXid))
    /\ MoveHeap
    /\ nextOid' = nextOid + 1
    /\ UNCHANGED <<pg_index, pg_attribute>>

\* CREATE INDEX (ShareLock on the table: compatible with AccessShareLock)
DDL_CreateIndex ==
    /\ DDLCommon("create_index")
    /\ lock_src # AccessExclusiveLock
    /\ Cardinality(pg_index) < 2
    /\ pg_index' = pg_index \cup
           {[indexrelid |-> nextOid, xmin |-> nextXid, ok |-> TRUE,
             indisprimary |-> FALSE, indisreplident |-> FALSE]}
    /\ pg_class' = Put(pg_class, nextOid, ClassRow(nextXid, nextOid, 0, InvalidOid, "i", IndexName(nextOid), relid_src))
    /\ committed' = Put(committed, nextOid, ClassRow(nextXid, nextOid, 0, InvalidOid, "i", IndexName(nextOid), relid_src))
    /\ nextOid' = nextOid + 1
    /\ UNCHANGED <<pg_attribute, heap>>

\* DROP INDEX (AccessExclusiveLock on the table and on the index)
DDL_DropIndex ==
    /\ DDLCommon("drop_index")
    /\ lock_src = NoLock
    /\ \E r \in pg_index :
          /\ r.indexrelid \notin lock_idx
          /\ pg_index' = pg_index \ {r}
          /\ pg_class' = Restrict(pg_class, DOMAIN pg_class \ {r.indexrelid})
          /\ committed' = Restrict(committed, DOMAIN committed \ {r.indexrelid})
    /\ UNCHANGED <<pg_attribute, heap, nextOid>>

\* DROP INDEX CONCURRENTLY, first transaction: the index is marked invalid
\* (ShareUpdateExclusiveLock on the table and on the index)
DDL_InvalidateIndex ==
    /\ DDLCommon("invalidate_index")
    /\ lock_src # AccessExclusiveLock
    /\ \E r \in pg_index :
          /\ r.ok
          /\ r.indexrelid \notin lock_idx
          /\ pg_index' = (pg_index \ {r}) \cup {[r EXCEPT !.ok = FALSE, !.xmin = nextXid]}
    /\ UNCHANGED <<pg_class, committed, pg_attribute, heap, nextOid>>

\* REINDEX INDEX (ShareLock on the table, AccessExclusiveLock on the index)
DDL_Reindex ==
    /\ DDLCommon("reindex")
    /\ lock_src # AccessExclusiveLock
    /\ \E o \in SourceIndexOids \ lock_idx :
          SetClass([x \in {o} |-> [committed[x] EXCEPT !.xmin = nextXid,
                                                       !.relfilenode = nextOid]])
    /\ nextOid' = nextOid + 1
    /\ UNCHANGED <<pg_index, pg_attribute, heap>>

\* ALTER INDEX ... SET TABLESPACE: locks the index only, not the table
DDL_AlterIndex ==
    /\ DDLCommon("alter_index")
    /\ \E o \in SourceIndexOids \ lock_idx :
          SetClass([x \in {o} |-> [committed[x] EXCEPT !.xmin = nextXid,
                                                       !.relfilenode = nextOid,
                                                       !.reltablespace = OtherTablespace]])
    /\ nextOid' = nextOid + 1
    /\ UNCHANGED <<pg_index, pg_attribute, heap>>

\* A DDL that replaces the pg_class row of the table without touching columns,
\* indexes or storage: CREATE TRIGGER sets relhastriggers (ShareRowExclusiveLock)
DDL_CreateTrigger ==
    /\ DDLCommon("create_trigger")
    /\ lock_src # AccessExclusiveLock
    /\ SetClass([o \in {relid_src} |-> [committed[o] EXCEPT !.xmin = nextXid]])
    /\ UNCHANGED <<pg_index, pg_attribute, heap, nextOid>>

EnvDDL ==
    \/ DDL_AddColumn \/ DDL_DropColumn \/ DDL_AlterColumn \/ DDL_Rewrite
    \/ DDL_CreateIndex \/ DDL_DropIndex \/ DDL_InvalidateIndex \/ DDL_Reindex
    \/ DDL_AlterIndex \/ DDL_CreateTrigger

(* ------------------------------------------------------------------ *)
(* How a call of squeeze_table() ends other than by returning         *)
(* ------------------------------------------------------------------ *)
\* what no step of the session changes
envAll == <<cfg, pg_index, pg_attribute, committed, wal, nextXid, writesLeft, ddlLeft,
            rival, load, frame>>

CommittedStorage == {committed[o].relfilenode : o \in DOMAIN committed}

\* ereport(ERROR): the (sub)transaction is aborted. Its locks are released, its
\* catalog changes and the storage it created are gone. The replication slot is
\* released by the top-level error recovery of the backend, which does not run
\* when the ERROR is trapped by the calling PL/pgSQL block.
RaiseHolding(msg, slot) ==
    /\ pc' = "error"
    /\ errmsg' = msg
    /\ lock_src' = NoLock
    /\ lock_idx' = {}
    /\ pg_class' = committed
    /\ heap' = Restrict(heap, CommittedStorage)
    /\ MyReplicationSlot' = (cfg.trapped /\ slot)
    /\ UNCHANGED <<locals, reader, snap_hist, now, nextOid, hist, envAll>>

\* ereport(ERROR) while the session holds the slot it held before the step
Raise(msg) == RaiseHolding(msg, MyReplicationSlot)

\* A failed Assert() of an assert-enabled build: the backend aborts and the
\* cluster goes through crash recovery, which removes the ephemeral slot.
Crash ==
    /\ pc' = "crashed"
    /\ errmsg' = "TRAP: FailedAssertion"
    /\ lock_src' = NoLock
    /\ lock_idx' = {}
    /\ pg_class' = committed
    /\ heap' = Restrict(heap, CommittedStorage)
    /\ MyReplicationSlot' = FALSE
    /\ UNCHANGED <<locals, reader, snap_hist, now, nextOid, hist, envAll>>

\* Assert(cond) followed by a jump to "next": a build without assertions goes
\* on whatever cond is, a build with assertions aborts when it is false.
AfterAssert(cond, next) == IF cond THEN {next} ELSE {next, "crashed"}

(* ------------------------------------------------------------------ *)
(* squeeze_table(), up to the final merge                             *)
(* ------------------------------------------------------------------ *)
\* heap_openrv(AccessShareLock) and check_prerequisites()
OpenSource ==
    /\ pc = "start"
    /\ IF check_prerequisites(cfg) # ""
       THEN Raise(check_prerequisites(cfg))
       ELSE /\ pc' = "get_catalog_state"
            /\ lock_src' = AccessShareLock
            /\ UNCHANGED <<errmsg, locals, lock_idx, MyReplicationSlot, reader,
                           snap_hist, pg_class, heap, now, nextOid, hist, envAll>>

\* a rebuild that keeps the share lock on the source until setup_decoding() is over
LockKeptForDecoding ==
    /\ pc = "get_catalog_state"
    /\ LET state == get_catalog_state(pg_class, pg_index, pg_attribute)
       IN IF state.invalid_index
          THEN Raise("At least one index is invalid")
          ELSE /\ pc' = "check_identity"
               /\ cat_state' = state
               /\ ident_idx_src' = RelationGetReplicaIndex(cfg.relreplident, pg_index)
               /\ UNCHANGED <<errmsg, indexes_src, indexes_dst, relid_dst, i_attempt,
                              source_finalized, success, t_end, end_of_wal, lock_src,
                              lock_idx, MyReplicationSlot, reader, snap_hist, pg_class,
                              heap, now, nextOid, hist, envAll>>

\* the identity index, get_catalog_state(), the invalid-index test, heap_close()
GetCatalogState ==
    /\ pc = "get_catalog_state"
    /\ LET state == get_catalog_state(pg_class, pg_index, pg_attribute)
       IN IF state.invalid_index
          THEN Raise("At least one index is invalid")
          ELSE /\ pc' = "check_identity"
               /\ cat_state' = state
               /\ ident_idx_src' = RelationGetReplicaIndex(cfg.relreplident, pg_index)
               /\ lock_src' = NoLock
               /\ UNCHANGED <<errmsg, indexes_src, indexes_dst, relid_dst, i_attempt,
                              source_finalized, success, t_end, end_of_wal, lock_idx,
                              MyReplicationSlot, reader, snap_hist, pg_class, heap,
                              now, nextOid, hist, envAll>>

\* a call that goes on whatever the replica identity is
IdentityNotChecked ==
    /\ pc = "check_identity"
    /\ pc' = "tablespace"
    /\ UNCHANGED <<errmsg, locals, lock_src, lock_idx, MyReplicationSlot,
                   reader, snap_hist, pg_class, heap, now, nextOid, hist, envAll>>

\* the tests of the replica identity
CheckIdentity ==
    /\ pc = "check_identity"
    /\ IF \/ cfg.relreplident = REPLICA_IDENTITY_NOTHING
          \/ (cfg.relreplident = REPLICA_IDENTITY_DEFAULT /\ ~OidIsValid(ident_idx_src))
       THEN Raise("Table has no identity index")
       ELSE IF cfg.relreplident = REPLICA_IDENTITY_FULL
       THEN Raise("Replica identity \"full\" not supported")
       ELSE /\ pc' = "tablespace"
            /\ UNCHANGED <<errmsg, locals, lock_src, lock_idx, MyReplicationSlot,
                           reader, snap_hist, pg_class, heap, now, nextOid, hist, envAll>>

\* get_tablespace_oid(name, false); InvalidOid stands for its ERROR
get_tablespace_oid(name) ==
    CASE name = "valid" -> OtherTablespace
      [] name = "noacl" -> NoAclTablespace
      [] name = "pg_global" -> GLOBALTABLESPACE_OID
      [] OTHER -> InvalidOid

ErrNoTablespace == "tablespace does not exist"
ErrGlobalTablespace == "only shared relations can be placed in pg_global tablespace"

\* the index of the fingerprint that has the name, InvalidOid if none has
index_by_name(state, indname) ==
    LET found == {j \in 1..state.relninds : state.indexes[j].relname = indname}
    IN IF found = {} THEN InvalidOid
       ELSE state.indexes[CHOOSE j \in found : \A k \in found : j <= k].oid

\* mappings taken as they are given, neither looked up nor compared
MappingNotValidated(state, a) ==
    [err |-> "",
     indexes |-> [i \in 1..Len(a.rows) |->
                    [index |-> index_by_name(state, a.rows[i][1]),
                     tablespace |-> get_tablespace_oid(a.rows[i][2])]]]

\* the loop over the rows in resolve_index_tablepaces(); acc is tbsp_info->indexes
RECURSIVE resolve_rows(_, _, _, _)
resolve_rows(state, rows, i, acc) ==
    IF i > Len(rows) THEN [err |-> "", indexes |-> acc]
    ELSE LET ind_oid == index_by_name(state, rows[i][1])
             tbsp_oid == get_tablespace_oid(rows[i][2])
         IN IF ~OidIsValid(ind_oid)
            THEN [err |-> "Table has no index", indexes |-> acc]
            ELSE IF \E j \in 1..Len(acc) : acc[j].index = ind_oid
            THEN [err |-> "Duplicate tablespace mapping for index", indexes |-> acc]
            ELSE IF ~OidIsValid(tbsp_oid)
            THEN [err |-> ErrNoTablespace, indexes |-> acc]
            ELSE resolve_rows(state, rows, i + 1,
                              Append(acc, [index |-> ind_oid, tablespace |-> tbsp_oid]))

\* resolve_index_tablepaces(): the shape of the array, then the rows
resolve_index_tablepaces(state, a) ==
    IF a.ndim # 2
    THEN [err |-> "Index-to-tablespace mappings must be text[][] array", indexes |-> <<>>]
    ELSE IF a.ncols # 2
    THEN [err |-> "The index-to-tablespace mappings must have 2 columns", indexes |-> <<>>]
    ELSE IF a.lbound # 1
    THEN [err |-> "Each dimension of the index-to-tablespace mappings must start at 1",
          indexes |-> <<>>]
    ELSE IF a.nulls
    THEN [err |-> "The index-to-tablespace array is must not contain NULLs",
          indexes |-> <<>>]
    ELSE resolve_rows(state, a.rows, 1, <<>>)

\* tbsp_info->indexes
tbsp_info_indexes ==
    IF cfg.ind_tbsp.isnull THEN <<>>
    ELSE resolve_index_tablepaces(cat_state, cfg.ind_tbsp).indexes

\* the tablespace arguments, the two assertions and the copy of the index OIDs
ProcessTablespace ==
    /\ pc = "tablespace"
    /\ IF cfg.tbspname # "null" /\ ~OidIsValid(get_tablespace_oid(cfg.tbspname))
       THEN Raise(ErrNoTablespace)
       ELSE IF ~cfg.ind_tbsp.isnull
               /\ resolve_index_tablepaces(cat_state, cfg.ind_tbsp).err # ""
       THEN Raise(resolve_index_tablepaces(cat_state, cfg.ind_tbsp).err)
       ELSE \E p \in AfterAssert(cat_state.form_class.relnatts >= 1
                                 /\ cat_state.relninds > 0, "setup_decoding") :
              IF p = "crashed" THEN Crash
              ELSE /\ pc' = p
                   /\ indexes_src' = [n \in 1..cat_state.relninds |-> cat_state.indexes[n].oid]
                   /\ UNCHANGED <<errmsg, cat_state, ident_idx_src, indexes_dst, relid_dst,
                                  i_attempt, source_finalized, success, t_end, end_of_wal,
                                  lock_src, lock_idx, MyReplicationSlot, reader, snap_hist,
                                  pg_class, heap, now, nextOid, hist, envAll>>

\* setup_decoding() and build_historic_snapshot(): the slot is created, the
\* decoding starts at the current end of the WAL and the historic snapshot
\* shows the table as of that point.
\* a decoding that starts at the beginning of the WAL instead of its current end
StartpointAtBeginning(w) == 0

\* DecodingContextFindStartpoint(): the decoding starts at the current end of the WAL
DecodingContextFindStartpoint(w) == Len(w)

\* the name of the slot setup_decoding() creates for a table of a database
slot_name(dbid, relid) == <<REPL_SLOT_BASE_NAME, dbid>>

\* the slots other sessions hold
RivalSlots == IF rival.pc = "decoding" THEN {slot_name(rival.db, rival.relid)} ELSE {}

ErrSlotExists == "replication slot already exists"

\* a slot that is created whether or not one of its name exists
SlotCreatedAnyway(name, existing) == ""

\* ReplicationSlotCreate(): the name must not be that of an existing slot
ReplicationSlotCreate(name, existing) ==
    IF name \in existing THEN ErrSlotExists ELSE ""

ErrPermission == "must be superuser or replication role to use replication slots"

\* a session that may use replication slots whatever its role is
PermissionsNotChecked(privileged) == ""

\* check_permissions() "inlined": superuser() or has_rolreplication()
check_permissions(privileged) ==
    IF ~privileged THEN ErrPermission ELSE ""

\* a rebuild that reads the start point and takes the snapshot without opening
\* the capture session
CaptureNotOpened ==
    /\ pc = "setup_decoding"
    /\ pc' = "create_transient_table"
    /\ reader' = DecodingContextFindStartpoint(wal)
    /\ snap_hist' = SourceRows
    /\ hist' = [hist EXCEPT !.startpos = Len(wal)]
    /\ UNCHANGED <<errmsg, locals, lock_src, lock_idx, MyReplicationSlot, pg_class, heap,
                   now, nextOid, envAll>>

\* a setup that leaves a slot the session still holds where it is
LingeringSlotKept(slot) == slot

\* if (MyReplicationSlot != NULL) ReplicationSlotRelease(): whether the session
\* holds a slot after it (an ephemeral slot is dropped when it is released)
ReleaseLingeringSlot(slot) == FALSE

\* the slots that exist when ReplicationSlotCreate() is called
SlotsAtCreate ==
    RivalSlots \cup (IF ReleaseLingeringSlot(MyReplicationSlot)
                     THEN {slot_name(MyDatabaseId, relid_src)} ELSE {})

SetupDecoding ==
    /\ pc = "setup_decoding"
    /\ IF check_permissions(cfg.privileged) # ""
       THEN /\ RaiseHolding(check_permissions(cfg.privileged),
                            ReleaseLingeringSlot(MyReplicationSlot))
       ELSE IF ReplicationSlotCreate(slot_name(MyDatabaseId, relid_src), SlotsAtCreate) # ""
       THEN RaiseHolding(ReplicationSlotCreate(slot_name(MyDatabaseId, relid_src),
                                               SlotsAtCreate),
                         ReleaseLingeringSlot(MyReplicationSlot))
       ELSE /\ pc' = "create_transient_table"
            /\ MyReplicationSlot' = TRUE
            /\ reader' = DecodingContextFindStartpoint(wal)
            /\ snap_hist' = SourceRows
            /\ hist' = [hist EXCEPT !.startpos = Len(wal)]
            /\ UNCHANGED <<errmsg, locals, lock_src, lock_idx, pg_class, heap, now,
                           nextOid, envAll>>

\* tbsp_info->table: the tablespace named by the 4th argument, else that of the source
tbsp_info_table ==
    IF cfg.tbspname = "null" THEN cat_state.form_class.reltablespace
    ELSE get_tablespace_oid(cfg.tbspname)

\* pg_tablespace_aclcheck(tablespace, relowner, ACL_CREATE) is ACLCHECK_OK
pg_tablespace_aclcheck(tablespace) == tablespace # NoAclTablespace

\* heap_create_with_catalog() and NewHeapCreateToastTable()
CreateTransient ==
    /\ LET has_toast == OidIsValid(cat_state.form_class.reltoastrelid)
           new == [o \in {nextOid} \cup (IF has_toast THEN {nextOid + 1} ELSE {}) |->
                     IF o = nextOid
                     THEN ClassRow(nextXid, o, tbsp_info_table,
                                   IF has_toast THEN nextOid + 1 ELSE InvalidOid,
                                   "r", TransientName, InvalidOid)
                     ELSE ClassRow(nextXid, o, 0, InvalidOid, "t", ToastName(nextOid, ""), nextOid)]
       IN /\ pg_class' = [o \in DOMAIN pg_class \cup DOMAIN new |->
                             IF o \in DOMAIN new THEN new[o] ELSE pg_class[o]]
          /\ heap' = Put(heap, nextOid, [k \in Keys |-> NoRow])
          /\ relid_dst' = nextOid
          /\ nextOid' = nextOid + 2
    /\ pc' = "open_source"
    /\ UNCHANGED <<errmsg, cat_state, ident_idx_src, indexes_src, indexes_dst, i_attempt,
                   source_finalized, success, t_end, end_of_wal, lock_src, lock_idx,
                   MyReplicationSlot, reader, snap_hist, now, hist, envAll>>

\* create_transient_table(): the table and, if the source has one, its TOAST relation
CreateTransientTable ==
    /\ pc = "create_transient_table"
    /\ IF /\ OidIsValid(tbsp_info_table) /\ tbsp_info_table # MyDatabaseTableSpace
          /\ ~pg_tablespace_aclcheck(tbsp_info_table)
       THEN Raise("permission denied for tablespace")
       ELSE IF tbsp_info_table = GLOBALTABLESPACE_OID
       THEN Raise(ErrGlobalTablespace)
       ELSE CreateTransient

\* heap_open(relid_src, AccessShareLock)
ReopenSource ==
    /\ pc = "open_source"
    /\ pc' = "check1"
    /\ lock_src' = AccessShareLock
    /\ UNCHANGED <<errmsg, locals, lock_idx, MyReplicationSlot, reader, snap_hist,
                   pg_class, heap, now, nextOid, hist, envAll>>

\* a call of check_catalog_changes() in squeeze_table() or perform_final_merge()
Checkpoint(lock_held, next) ==
    /\ LET e == check_catalog_changes(cat_state, lock_held, pg_class, pg_index, pg_attribute)
       IN IF e # "" THEN Raise(e)
          ELSE /\ pc' = next
               /\ UNCHANGED <<errmsg, locals, lock_src, lock_idx, MyReplicationSlot,
                              reader, snap_hist, pg_class, heap, now, nextOid, hist, envAll>>

\* check_catalog_changes(cat_state, NoLock) before the initial load
CheckBeforeLoad ==
    /\ pc = "check1"
    /\ Checkpoint(NoLock, "initial_load")

\* perform_initial_load(): every row the historic snapshot shows is inserted
\* into the transient table
perform_initial_load(visible) == [k \in Keys |-> visible[k]]

InitialLoad ==
    /\ pc = "initial_load"
    /\ pc' = "check2"
    /\ heap' = [heap EXCEPT ![pg_class[relid_dst].relfilenode] = perform_initial_load(snap_hist)]
    /\ UNCHANGED <<errmsg, locals, lock_src, lock_idx, MyReplicationSlot, reader,
                   snap_hist, pg_class, now, nextOid, hist, envAll>>

\* check_catalog_changes(cat_state, AccessShareLock) before the index build
\* a rebuild that goes on to the index build without the second check
SecondCheckSkipped ==
    /\ pc = "check2"
    /\ pc' = "build_indexes"
    /\ UNCHANGED <<errmsg, locals, lock_src, lock_idx, MyReplicationSlot, reader,
                   snap_hist, pg_class, heap, now, nextOid, hist, envAll>>

CheckBeforeIndexBuild ==
    /\ pc = "check2"
    /\ Checkpoint(AccessShareLock, "build_indexes")

\* the tablespace of the transient index built for a source index: that of
\* the mapping if there is one, else that of the source index
index_tablespace(ind_oid) ==
    LET m == {j \in 1..Len(tbsp_info_indexes) : tbsp_info_indexes[j].index = ind_oid}
        tbsp_oid == IF m = {} THEN InvalidOid
                    ELSE tbsp_info_indexes[CHOOSE j \in m : \A k \in m : j <= k].tablespace
        c == {j \in 1..cat_state.relninds : cat_state.indexes[j].oid = ind_oid}
    IN IF tbsp_oid = GLOBALTABLESPACE_OID THEN [err |-> ErrGlobalTablespace, oid |-> tbsp_oid]
       ELSE IF OidIsValid(tbsp_oid) THEN [err |-> "", oid |-> tbsp_oid]
       ELSE IF c = {} THEN [err |-> "Failed to retrieve index tablespace", oid |-> InvalidOid]
       ELSE [err |-> "", oid |-> cat_state.indexes[CHOOSE j \in c : TRUE].reltablespace]

\* What index_create() is given for a source index. BuildIndexInfo(ind) is
\* taken while the index is open; the access method, the options, the columns
\* and indisprimary are read from "ind" after index_close(ind).
IndexDefinition(ind_oid) ==
    [ii |-> ind_oid, rd_rel |-> ind_oid,
     indisprimary |-> \E r \in pg_index : r.indexrelid = ind_oid /\ r.indisprimary]

\* index_create(rel_dst, "ind_%d", ...) for i = 0 .. nindexes - 1: the i-th new
\* index gets the OID first + i and the definition defs[i]
index_create(class, first, xid, defs) ==
    [o \in DOMAIN class \cup {first + n - 1 : n \in 1..Len(indexes_src)} |->
        IF o \in DOMAIN class THEN class[o]
        ELSE [indexdef |-> defs[o - first + 1]]
             @@ ClassRow(xid, o, index_tablespace(indexes_src[o - first + 1]).oid,
                         InvalidOid, "i", "tmp_idx", relid_dst)]

\* build_transient_indexes(): one index on the transient table per source index
BuildTransientIndexes ==
    /\ pc = "build_indexes"
    /\ \E p \in AfterAssert(Len(indexes_src) > 0, "identity_key") :
          IF p = "crashed" THEN Crash
          ELSE IF \E n \in 1..Len(indexes_src) : index_tablespace(indexes_src[n]).err # ""
          THEN Raise(index_tablespace(indexes_src[
                        CHOOSE n \in 1..Len(indexes_src) :
                           /\ index_tablespace(indexes_src[n]).err # ""
                           /\ \A k \in 1..(n - 1) :
                                 index_tablespace(indexes_src[k]).err = ""]).err)
          ELSE /\ pc' = p
               /\ indexes_dst' = [n \in 1..Len(indexes_src) |-> nextOid + n - 1]
               /\ pg_class' = index_create(pg_class, nextOid, nextXid,
                                           [n \in 1..Len(indexes_src) |->
                                               IndexDefinition(indexes_src[n])])
               /\ nextOid' = nextOid + Len(indexes_src)
               /\ UNCHANGED <<errmsg, cat_state, ident_idx_src, indexes_src, relid_dst,
                              i_attempt, source_finalized, success, t_end, end_of_wal,
                              lock_src, lock_idx, MyReplicationSlot, reader, snap_hist,
                              heap, now, hist, envAll>>

\* What a read of "ind" can give once the relation cache entry it points to
\* has been freed: the values that were there, or anything else.
StaleDefinitions(ind_oid) ==
    {[ii |-> ind_oid, rd_rel |-> a, indisprimary |-> b] :
        a \in {ind_oid, InvalidOid}, b \in BOOLEAN}

\* build_transient_indexes() when REINDEX INDEX of a source index commits after
\* index_close(ind) and before index_create(): the index is not locked any
\* more, a SearchSysCache() that has to read the catalog accepts the
\* invalidation, and the relation cache entry, which nobody references, is
\* freed. The function goes on reading ind->rd_index, ind->rd_rel and
\* ind->rd_options: the backend gets the old values, other values, or dies.
BuildWithClosedIndex ==
    /\ pc = "build_indexes"
    /\ Len(indexes_src) > 0
    /\ \A n \in 1..Len(indexes_src) : index_tablespace(indexes_src[n]).err = ""
    /\ ddlLeft > 0
    /\ \E k \in 1..Len(indexes_src) :
          LET o == indexes_src[k]
              reindexed == [committed[o] EXCEPT !.xmin = nextXid, !.relfilenode = nextOid]
              visible == [pg_class EXCEPT ![o] = reindexed]
          IN /\ o \in SourceIndexOids \ lock_idx
             /\ committed' = [committed EXCEPT ![o] = reindexed]
             /\ \/ \E d \in StaleDefinitions(o) :
                      /\ pc' = "identity_key"
                      /\ indexes_dst' = [n \in 1..Len(indexes_src) |-> nextOid + n]
                      /\ pg_class' = index_create(visible, nextOid + 1, nextXid + 1,
                                                  [n \in 1..Len(indexes_src) |->
                                                      IF n = k THEN d
                                                      ELSE IndexDefinition(indexes_src[n])])
                      /\ nextOid' = nextOid + 1 + Len(indexes_src)
                      /\ UNCHANGED <<errmsg, lock_src, lock_idx, MyReplicationSlot, heap>>
                \/ /\ pc' = "crashed"
                   /\ errmsg' = "server process was terminated by signal 11"
                   /\ lock_src' = NoLock
                   /\ lock_idx' = {}
                   /\ pg_class' = committed'
                   /\ heap' = Restrict(heap, {committed'[x].relfilenode : x \in DOMAIN committed})
                   /\ MyReplicationSlot' = FALSE
                   /\ nextOid' = nextOid + 1
                   /\ UNCHANGED indexes_dst
    /\ ddlLeft' = ddlLeft - 1
    /\ nextXid' = nextXid + 1
    /\ hist' = Recorded("reindex")
    /\ UNCHANGED <<cfg, cat_state, ident_idx_src, indexes_src, relid_dst, i_attempt,
                   source_finalized, success, t_end, end_of_wal, reader, snap_hist,
                   pg_index, pg_attribute, wal, now, writesLeft, rival, load, frame>>

\* a rebuild that keeps the share lock on the source after build_identity_key()
SharedLockKept ==
    /\ pc = "identity_key"
    /\ \E p \in AfterAssert(OidIsValid(ident_idx_src), "find_ident_idx") :
          IF p = "crashed" THEN Crash
          ELSE IF ident_idx_src \notin DOMAIN pg_class
          THEN Raise("could not open relation with OID")
          ELSE /\ pc' = p
               /\ UNCHANGED <<errmsg, locals, lock_src, lock_idx, MyReplicationSlot, reader,
                              snap_hist, pg_class, heap, now, nextOid, hist, envAll>>

\* build_identity_key() opens the identity index; then heap_close(rel_src, AccessShareLock)
BuildIdentityKey ==
    /\ pc = "identity_key"
    /\ \E p \in AfterAssert(OidIsValid(ident_idx_src), "find_ident_idx") :
          IF p = "crashed" THEN Crash
          ELSE IF ident_idx_src \notin DOMAIN pg_class
          THEN Raise("could not open relation with OID")
          ELSE /\ pc' = p
               /\ lock_src' = NoLock
               /\ UNCHANGED <<errmsg, locals, lock_idx, MyReplicationSlot, reader,
                              snap_hist, pg_class, heap, now, nextOid, hist, envAll>>

\* an end marker that misses the last committed write
FlushPtrBehind(w) == IF Len(w) > 0 THEN Len(w) - 1 ELSE 0

\* XLogFlush(GetInsertRecPtr()); GetFlushRecPtr(): what has been committed is flushed
GetFlushRecPtr(w) == Len(w)

\* ident_idx_dst: indexes_dst[i] of the first i with ident_idx_src == indexes_src[i]
ident_idx_dst ==
    LET m == {n \in 1..Len(indexes_src) : ident_idx_src = indexes_src[n]}
    IN IF m = {} THEN InvalidOid
       ELSE indexes_dst[CHOOSE n \in m : \A k \in m : n <= k]

\* the identity index of the transient table, XLogFlush() and GetFlushRecPtr()
FindIdentityIndex ==
    /\ pc = "find_ident_idx"
    /\ IF ~OidIsValid(ident_idx_dst)
       THEN Raise("Identity index missing on the transient relation")
       ELSE /\ pc' = "drain"
            /\ end_of_wal' = GetFlushRecPtr(wal)
            /\ UNCHANGED <<errmsg, cat_state, ident_idx_src, indexes_src, indexes_dst,
                           relid_dst, i_attempt, source_finalized, success, t_end,
                           lock_src, lock_idx, MyReplicationSlot, reader, snap_hist,
                           pg_class, heap, now, nextOid, hist, envAll>>

(* ------------------------------------------------------------------ *)
(* Decoding and replay: process_concurrent_changes()                  *)
(* ------------------------------------------------------------------ *)
\* gettimeofday()
gettimeofday(t) == <<t \div USECS_PER_SEC, t % USECS_PER_SEC>>

\* the deadline has been reached
processing_time_elapsed(t, deadline) ==
    LET tv == gettimeofday(t)
    IN \/ tv[1] > deadline[1]
       \/ (tv[1] = deadline[1] /\ tv[2] >= deadline[2])

\* One change is applied to the transient table: the row is looked up through
\* the identity index for UPDATE and DELETE, and inserted into the (unique)
\* identity index for INSERT and UPDATE.
apply_concurrent_change(rows, c) ==
    IF c.kind = "insert" /\ rows[c.key] # NoRow
    THEN [err |-> "duplicate key value", rows |-> rows]
    ELSE IF c.kind # "insert" /\ rows[c.key] = NoRow
    THEN [err |-> "Failed to find target tuple", rows |-> rows]
    ELSE IF c.kind = "update" /\ c.newkey # c.key /\ rows[c.newkey] # NoRow
    THEN [err |-> "duplicate key value", rows |-> rows]
    ELSE [err |-> "", rows |-> Execute(rows, c)]

\* One round of process_concurrent_changes(): return true at end_of_wal;
\* otherwise check the catalog, decode and apply the next change, and return
\* false if the deadline has passed.
process_concurrent_changes(here, lock_held, deadline, done, timed_out) ==
    /\ IF reader >= end_of_wal
       THEN /\ pc' = done
            /\ UNCHANGED <<errmsg, locals, lock_src, lock_idx, MyReplicationSlot, reader,
                           snap_hist, pg_class, heap, now, nextOid, hist, envAll>>
       ELSE LET e == check_catalog_changes(cat_state, lock_held, pg_class, pg_index,
                                           pg_attribute)
                dst == pg_class[relid_dst].relfilenode
                r == apply_concurrent_change(heap[dst], wal[reader + 1])
                t == now + EventCostMs * 1000
            IN IF e # "" THEN Raise(e)
               ELSE IF r.err # "" THEN Raise(r.err)
               ELSE /\ heap' = [heap EXCEPT ![dst] = r.rows]
                    /\ reader' = reader + 1
                    /\ now' = t
                    /\ hist' = [hist EXCEPT !.applied = Append(@, reader + 1)]
                    /\ pc' = IF deadline # <<>> /\ processing_time_elapsed(t, deadline)
                             THEN timed_out ELSE here
                    /\ UNCHANGED <<errmsg, locals, lock_src, lock_idx, MyReplicationSlot,
                                   snap_hist, pg_class, nextOid, envAll>>

\* process_concurrent_changes(..., NoLock, NULL) before the exclusive lock
DecodeBeforeLock ==
    /\ pc = "drain"
    /\ process_concurrent_changes("drain", NoLock, <<>>, "index_check", "index_check")

\* a rebuild that enters the loop without looking at the flags of the indexes
IndexFlagsNotChecked ==
    /\ pc = "index_check"
    /\ pc' = "loop_test"
    /\ source_finalized' = FALSE
    /\ i_attempt' = 0
    /\ UNCHANGED <<errmsg, cat_state, ident_idx_src, indexes_src, indexes_dst,
                   relid_dst, success, t_end, end_of_wal, lock_src, lock_idx,
                   MyReplicationSlot, reader, snap_hist, pg_class, heap, now,
                   nextOid, hist, envAll>>

\* get_index_info(relid_src, NULL, &invalid_index, true)
CheckIndexesValid ==
    /\ pc = "index_check"
    /\ IF get_index_info(pg_index, pg_class, TRUE).found_invalid
       THEN Raise("Concurrent change of index detected")
       ELSE /\ pc' = "loop_test"
            /\ source_finalized' = FALSE
            /\ i_attempt' = 0
            /\ UNCHANGED <<errmsg, cat_state, ident_idx_src, indexes_src, indexes_dst,
                           relid_dst, success, t_end, end_of_wal, lock_src, lock_idx,
                           MyReplicationSlot, reader, snap_hist, pg_class, heap, now,
                           nextOid, hist, envAll>>

(* ------------------------------------------------------------------ *)
(* The final merge: the loop of squeeze_table(), perform_final_merge() *)
(* ------------------------------------------------------------------ *)
\* for (i = 0; i < 4; i++): the loop test and the call of perform_final_merge()
LoopTest ==
    /\ pc = "loop_test"
    /\ pc' = IF i_attempt < MaxAttempts THEN "pfm_lock" ELSE "after_loop"
    /\ hist' = IF i_attempt < MaxAttempts THEN [hist EXCEPT !.calls = @ + 1] ELSE hist
    /\ UNCHANGED <<errmsg, locals, lock_src, lock_idx, MyReplicationSlot, reader,
                   snap_hist, pg_class, heap, now, nextOid, envAll>>

\* LockRelationOid(relid_src, AccessExclusiveLock)
LockSource ==
    /\ pc = "pfm_lock"
    /\ pc' = "pfm_lock_idx"
    /\ lock_src' = AccessExclusiveLock
    /\ hist' = [hist EXCEPT !.lock_call = hist.calls]
    /\ UNCHANGED <<errmsg, locals, lock_idx, MyReplicationSlot, reader, snap_hist,
                   pg_class, heap, now, nextOid, envAll>>

\* a final merge that does not lock the indexes
IndexesNotLocked ==
    /\ pc = "pfm_lock_idx"
    /\ pc' = "pfm_deadline"
    /\ UNCHANGED <<errmsg, locals, lock_src, lock_idx, MyReplicationSlot, reader,
                   snap_hist, pg_class, heap, now, nextOid, hist, envAll>>

\* LockRelationOid(indexes_src[i], AccessExclusiveLock) for each index
LockIndexes ==
    /\ pc = "pfm_lock_idx"
    /\ pc' = "pfm_deadline"
    /\ lock_idx' = Range(indexes_src)
    /\ UNCHANGED <<errmsg, locals, lock_src, MyReplicationSlot, reader, snap_hist,
                   pg_class, heap, now, nextOid, hist, envAll>>

\* the deadline of the drain: t_end, or t_end_ptr = NULL
xlock_deadline(t_start, max_xlock_time) ==
    IF max_xlock_time > 0
    THEN LET usec == t_start[2] + 1000 * (max_xlock_time % 1000)
         IN <<t_start[1] + usec \div USECS_PER_SEC, usec % USECS_PER_SEC>>
    ELSE <<>>

ComputeDeadline ==
    /\ pc = "pfm_deadline"
    /\ pc' = "pfm_check"
    /\ t_end' = xlock_deadline(gettimeofday(now), cfg.xlock_time)
    /\ hist' = [hist EXCEPT !.t_start = now]
    /\ UNCHANGED <<errmsg, cat_state, ident_idx_src, indexes_src, indexes_dst, relid_dst,
                   i_attempt, source_finalized, success, end_of_wal, lock_src, lock_idx,
                   MyReplicationSlot, reader, snap_hist, pg_class, heap, now, nextOid,
                   envAll>>

\* a final merge that goes on to the flush without the check of the catalog
VerificationSkipped ==
    /\ pc = "pfm_check"
    /\ pc' = "pfm_flush"
    /\ UNCHANGED <<errmsg, locals, lock_src, lock_idx, MyReplicationSlot, reader,
                   snap_hist, pg_class, heap, now, nextOid, hist, envAll>>

\* a final merge that gives up the attempt, not the rebuild, if the catalog changed
MismatchRetried ==
    /\ pc = "pfm_check"
    /\ IF check_catalog_changes(cat_state, NoLock, pg_class, pg_index, pg_attribute) # ""
       THEN /\ pc' = "pfm_return"
            /\ success' = FALSE
            /\ lock_src' = NoLock
            /\ lock_idx' = {}
            /\ UNCHANGED <<errmsg, cat_state, ident_idx_src, indexes_src, indexes_dst,
                           relid_dst, i_attempt, source_finalized, t_end, end_of_wal,
                           MyReplicationSlot, reader, snap_hist, pg_class, heap, now,
                           nextOid, hist, envAll>>
       ELSE Checkpoint(NoLock, "pfm_flush")

\* check_catalog_changes(cat_state, NoLock) under the exclusive lock
CheckUnderLock ==
    /\ pc = "pfm_check"
    /\ Checkpoint(NoLock, "pfm_flush")

\* XLogFlush() and end_of_wal = GetFlushRecPtr()
FlushUnderLock ==
    /\ pc = "pfm_flush"
    /\ pc' = "pfm_drain"
    /\ end_of_wal' = GetFlushRecPtr(wal)
    /\ hist' = [hist EXCEPT !.backlog = GetFlushRecPtr(wal) - reader]
    /\ UNCHANGED <<errmsg, cat_state, ident_idx_src, indexes_src, indexes_dst, relid_dst,
                   i_attempt, source_finalized, success, t_end, lock_src, lock_idx,
                   MyReplicationSlot, reader, snap_hist, pg_class, heap, now, nextOid,
                   envAll>>

\* success = process_concurrent_changes(..., AccessExclusiveLock, t_end_ptr)
DrainUnderLock ==
    /\ pc = "pfm_drain"
    /\ process_concurrent_changes("pfm_drain", AccessExclusiveLock, t_end,
                                  "pfm_drained", "pfm_timed_out")

\* success is true: the locks stay
DrainSucceeded ==
    /\ pc = "pfm_drained"
    /\ pc' = "pfm_return"
    /\ success' = TRUE
    /\ UNCHANGED <<errmsg, cat_state, ident_idx_src, indexes_src, indexes_dst, relid_dst,
                   i_attempt, source_finalized, t_end, end_of_wal, lock_src, lock_idx,
                   MyReplicationSlot, reader, snap_hist, pg_class, heap, now, nextOid,
                   hist, envAll>>

\* success is false: UnlockRelationOid() of the indexes and of the table
UnlockAfterTimeout ==
    /\ pc = "pfm_timed_out"
    /\ pc' = "pfm_catchup"
    /\ success' = FALSE
    /\ lock_src' = NoLock
    /\ lock_idx' = {}
    /\ hist' = [hist EXCEPT !.held = now - hist.t_start, !.unlock_call = hist.calls]
    /\ UNCHANGED <<errmsg, cat_state, ident_idx_src, indexes_src, indexes_dst, relid_dst,
                   i_attempt, source_finalized, t_end, end_of_wal, MyReplicationSlot,
                   reader, snap_hist, pg_class, heap, now, nextOid, envAll>>

\* a failed attempt that returns without reading up to end_of_wal
CatchUpSkipped ==
    /\ pc = "pfm_catchup"
    /\ pc' = "pfm_return"
    /\ UNCHANGED <<errmsg, locals, lock_src, lock_idx, MyReplicationSlot, reader,
                   snap_hist, pg_class, heap, now, nextOid, hist, envAll>>

\* process_concurrent_changes(..., AccessExclusiveLock, NULL) without the lock
CatchUp ==
    /\ pc = "pfm_catchup"
    /\ process_concurrent_changes("pfm_catchup", AccessExclusiveLock, <<>>,
                                  "pfm_return", "pfm_return")

\* a loop that is left as if the attempt had succeeded, whatever it returned
FinalMergeResultIgnored ==
    /\ pc = "pfm_return"
    /\ source_finalized' = TRUE
    /\ pc' = "after_loop"
    /\ UNCHANGED <<errmsg, cat_state, ident_idx_src, indexes_src, indexes_dst, relid_dst,
                   i_attempt, success, t_end, end_of_wal, lock_src, lock_idx,
                   MyReplicationSlot, reader, snap_hist, pg_class, heap, now, nextOid,
                   hist, envAll>>

\* return success; the caller sets source_finalized and leaves the loop, or goes on
FinalMergeReturned ==
    /\ pc = "pfm_return"
    /\ IF success
       THEN /\ source_finalized' = TRUE
            /\ pc' = "after_loop"
            /\ UNCHANGED i_attempt
       ELSE /\ i_attempt' = i_attempt + 1
            /\ pc' = "loop_test"
            /\ UNCHANGED source_finalized
    /\ UNCHANGED <<errmsg, cat_state, ident_idx_src, indexes_src, indexes_dst, relid_dst,
                   success, t_end, end_of_wal, lock_src, lock_idx, MyReplicationSlot,
                   reader, snap_hist, pg_class, heap, now, nextOid, hist, envAll>>

\* if (!source_finalized) ereport(ERROR)
AfterLoop ==
    /\ pc = "after_loop"
    /\ IF ~source_finalized
       THEN Raise("\"squeeze_max_xlock_time\" prevented squeeze from completion")
       ELSE /\ pc' = "cleanup_decoding"
            /\ UNCHANGED <<errmsg, locals, lock_src, lock_idx, MyReplicationSlot, reader,
                           snap_hist, pg_class, heap, now, nextOid, hist, envAll>>

\* decoding_cleanup() and ReplicationSlotRelease(): an ephemeral slot is
\* dropped when it is released
ReleaseSlot ==
    /\ pc = "cleanup_decoding"
    /\ pc' = "swap_heap"
    /\ MyReplicationSlot' = FALSE
    /\ UNCHANGED <<errmsg, locals, lock_src, lock_idx, reader, snap_hist, pg_class,
                   heap, now, nextOid, hist, envAll>>

(* ------------------------------------------------------------------ *)
(* The swap                                                           *)
(* ------------------------------------------------------------------ *)
\* the TOAST relations as squeeze_table() has read them before the swap
toastrelid_src == cat_state.form_class.reltoastrelid
toastrelid_dst == IF OidIsValid(toastrelid_src) THEN relid_dst + 1 ELSE InvalidOid

\* a swap that leaves each relation in the tablespace it was in
TablespaceNotSwapped(class, r1, r2, xid) ==
    IF r1 \notin DOMAIN class \/ r2 \notin DOMAIN class
    THEN [err |-> "cache lookup failed for relation", class |-> class]
    ELSE [err |-> "",
          class |-> [o \in DOMAIN class |->
                       IF o = r1
                       THEN [class[r1] EXCEPT !.relfilenode = class[r2].relfilenode,
                                              !.reltoastrelid = class[r2].reltoastrelid,
                                              !.xmin = xid]
                       ELSE IF o = r2
                       THEN [class[r2] EXCEPT !.relfilenode = class[r1].relfilenode,
                                              !.reltoastrelid = class[r1].reltoastrelid,
                                              !.xmin = xid]
                       ELSE IF OidIsValid(class[r2].reltoastrelid) /\ o = class[r2].reltoastrelid
                       THEN [class[o] EXCEPT !.owner = r1]
                       ELSE IF OidIsValid(class[r1].reltoastrelid) /\ o = class[r1].reltoastrelid
                       THEN [class[o] EXCEPT !.owner = r2]
                       ELSE class[o]]]

\* swap_relation_files(): relfilenode, reltablespace and reltoastrelid of the
\* two pg_class rows are exchanged and the TOAST dependencies recorded anew.
swap_relation_files(class, r1, r2, xid) ==
    IF r1 \notin DOMAIN class \/ r2 \notin DOMAIN class
    THEN [err |-> "cache lookup failed for relation", class |-> class]
    ELSE IF ~(OidIsValid(class[r1].relfilenode) /\ OidIsValid(class[r2].relfilenode))
    THEN [err |-> "cannot swap mapped relations", class |-> class]
    ELSE LET relform1 == [class[r1] EXCEPT !.relfilenode = class[r2].relfilenode,
                                           !.reltablespace = class[r2].reltablespace,
                                           !.reltoastrelid = class[r2].reltoastrelid,
                                           !.xmin = xid]
             relform2 == [class[r2] EXCEPT !.relfilenode = class[r1].relfilenode,
                                           !.reltablespace = class[r1].reltablespace,
                                           !.reltoastrelid = class[r1].reltoastrelid,
                                           !.xmin = xid]
         IN [err |-> "",
             class |-> [o \in DOMAIN class |->
                          IF o = r1 THEN relform1
                          ELSE IF o = r2 THEN relform2
                          ELSE IF OidIsValid(relform1.reltoastrelid) /\ o = relform1.reltoastrelid
                          THEN [class[o] EXCEPT !.owner = r1]
                          ELSE IF OidIsValid(relform2.reltoastrelid) /\ o = relform2.reltoastrelid
                          THEN [class[o] EXCEPT !.owner = r2]
                          ELSE class[o]]]

\* swap_toast_names(): the TOAST relation that stays gets the name derived from relid1
swap_toast_names(class, relid1, toastrelid1, relid2, toastrelid2, xid) ==
    IF ~OidIsValid(toastrelid1)
    THEN [err |-> IF OidIsValid(toastrelid2) THEN "Unexpected TOAST relation exists" ELSE "",
          class |-> class]
    ELSE IF ~OidIsValid(toastrelid2)
    THEN [err |-> "Missing TOAST relation", class |-> class]
    ELSE [err |-> "",
          class |-> [o \in DOMAIN class |->
                       IF o = toastrelid1
                       THEN [class[o] EXCEPT !.relname = ToastName(relid1, ""), !.xmin = xid]
                       ELSE IF o = toastrelid2
                       THEN [class[o] EXCEPT !.relname = ToastName(relid1, "_"), !.xmin = xid]
                       ELSE class[o]]]

\* for (i = 0; i < nindexes; i++) swap_relation_files(indexes_src[i], indexes_dst[i])
RECURSIVE swap_index_files(_, _, _)
swap_index_files(class, n, xid) ==
    IF n = 0 THEN [err |-> "", class |-> class]
    ELSE LET before == swap_index_files(class, n - 1, xid)
         IN IF before.err # "" THEN before
            ELSE swap_relation_files(before.class, indexes_src[n], indexes_dst[n], xid)

\* a step of the swap whose catalog change other sessions see at once
SwapStepPublished(result, next) ==
    /\ IF result.err # "" THEN Raise(result.err)
       ELSE /\ pc' = next
            /\ pg_class' = result.class
            /\ committed' = [o \in DOMAIN committed |->
                                 IF o \in DOMAIN result.class THEN result.class[o]
                                 ELSE committed[o]]
            /\ hist' = [hist EXCEPT !.swaps = @ + 1,
                                    !.pre = IF hist.swaps = 0 THEN pg_class ELSE @]
            /\ UNCHANGED <<errmsg, locals, lock_src, lock_idx, MyReplicationSlot, reader,
                           snap_hist, heap, now, nextOid, cfg, pg_index, pg_attribute,
                           wal, nextXid, writesLeft, ddlLeft, rival, load, frame>>

\* a step of the swap: the catalog is changed or the ERROR raised; the catalog
\* as it was before the first step is kept for reference
SwapStep(result, next) ==
    /\ IF result.err # "" THEN Raise(result.err)
       ELSE /\ pc' = next
            /\ pg_class' = result.class
            /\ hist' = [hist EXCEPT !.swaps = @ + 1,
                                    !.pre = IF hist.swaps = 0 THEN pg_class ELSE @]
            /\ UNCHANGED <<errmsg, locals, lock_src, lock_idx, MyReplicationSlot, reader,
                           snap_hist, heap, now, nextOid, envAll>>

\* swap_relation_files(relid_src, relid_dst)
SwapHeap ==
    /\ pc = "swap_heap"
    /\ SwapStep(swap_relation_files(pg_class, relid_src, relid_dst, nextXid),
                "swap_toast_names")

\* swap_toast_names(relid_src, toastrelid_dst, relid_dst, toastrelid_src)
SwapToastNames ==
    /\ pc = "swap_toast_names"
    /\ SwapStep(swap_toast_names(pg_class, relid_src, toastrelid_dst, relid_dst,
                                 toastrelid_src, nextXid),
                "swap_indexes")

\* the storage of the indexes
SwapIndexes ==
    /\ pc = "swap_indexes"
    /\ SwapStep(swap_index_files(pg_class, Len(indexes_src), nextXid), "drop_transient")

\* a deletion of the transient table that gives up the locks of the source
\* table and its indexes first
DropUnlocked ==
    /\ pc = "drop_transient"
    /\ pc' = "return"
    /\ lock_src' = NoLock
    /\ lock_idx' = {}
    /\ LET gone == {o \in DOMAIN pg_class : o = relid_dst \/ pg_class[o].owner = relid_dst}
           left == Restrict(pg_class, DOMAIN pg_class \ gone)
       IN /\ pg_class' = left
          /\ heap' = Restrict(heap, {left[o].relfilenode : o \in DOMAIN left})
    /\ UNCHANGED <<errmsg, locals, MyReplicationSlot, reader, snap_hist, now, nextOid,
                   hist, envAll>>

\* performDeletion() of the transient table: its pg_class row, what depends on
\* it and the storage these rows point to
DropTransient ==
    /\ pc = "drop_transient"
    /\ pc' = "return"
    /\ LET gone == {o \in DOMAIN pg_class : o = relid_dst \/ pg_class[o].owner = relid_dst}
           left == Restrict(pg_class, DOMAIN pg_class \ gone)
       IN /\ pg_class' = left
          /\ heap' = Restrict(heap, {left[o].relfilenode : o \in DOMAIN left})
    /\ UNCHANGED <<errmsg, locals, lock_src, lock_idx, MyReplicationSlot, reader,
                   snap_hist, now, nextOid, hist, envAll>>

\* PG_RETURN_VOID(): the transaction of the caller commits
Return ==
    /\ pc = "return"
    /\ pc' = "done"
    /\ committed' = pg_class
    /\ lock_src' = NoLock
    /\ lock_idx' = {}
    /\ UNCHANGED <<cfg, errmsg, locals, MyReplicationSlot, reader, snap_hist, pg_class,
                   pg_index, pg_attribute, heap, wal, now, nextXid, nextOid, writesLeft,
                   ddlLeft, rival, load, frame, hist>>

(* ------------------------------------------------------------------ *)
(* The specification                                                  *)
(* ------------------------------------------------------------------ *)
Session ==
    \/ OpenSource \/ GetCatalogState \/ CheckIdentity \/ ProcessTablespace
    \/ SetupDecoding \/ CreateTransientTable \/ ReopenSource \/ CheckBeforeLoad
    \/ InitialLoad \/ CheckBeforeIndexBuild \/ BuildTransientIndexes
    \/ BuildIdentityKey \/ FindIdentityIndex \/ DecodeBeforeLock \/ CheckIndexesValid
    \/ LoopTest \/ LockSource \/ LockIndexes \/ ComputeDeadline \/ CheckUnderLock
    \/ FlushUnderLock \/ DrainUnderLock \/ DrainSucceeded \/ UnlockAfterTimeout
    \/ CatchUp \/ FinalMergeReturned \/ AfterLoop \/ ReleaseSlot
    \/ SwapHeap \/ SwapToastNames \/ SwapIndexes \/ DropTransient \/ Return

Next == Session \/ EnvWrite \/ EnvDDL \/ BuildWithClosedIndex

Spec == Init /\ [][Next]_vars

(* ------------------------------------------------------------------ *)
(* The rebuild of a three-row table under a fixed sequence of writes  *)
(* ------------------------------------------------------------------ *)
ScenarioRows == [k \in Keys |-> CASE k = 1 -> "a" [] k = 2 -> "b" [] k = 3 -> "c"
                                   [] OTHER -> NoRow]

\* UPDATE ... SET v = 'z' WHERE id = 2; DELETE ... WHERE id = 1; INSERT (4, 'd')
ScenarioWrites ==
    <<[kind |-> "update", key |-> 2, newkey |-> 2, val |-> "z"],
      [kind |-> "delete", key |-> 1, newkey |-> 1, val |-> NoRow],
      [kind |-> "insert", key |-> 4, newkey |-> 4, val |-> "d"]>>

\* a write of another session commits, as EnvWrite
CommitWrite(c) ==
    /\ Running
    /\ writesLeft > 0
    /\ lock_src # AccessExclusiveLock
    /\ heap' = [heap EXCEPT ![committed[relid_src].relfilenode] = Execute(@, c)]
    /\ wal' = Append(wal, c)
    /\ writesLeft' = writesLeft - 1
    /\ nextXid' = nextXid + 1
    /\ UNCHANGED <<cfg, pc, errmsg, locals, lock_src, lock_idx, MyReplicationSlot,
                   reader, snap_hist, pg_class, pg_index, pg_attribute, committed,
                   now, nextOid, ddlLeft, rival, load, frame, hist>>

\* the next write of the scenario commits
EnvScenarioWrite == CommitWrite(ScenarioWrites[Len(wal) + 1])

InitScenario ==
    \E d \in XlockTimes :
        /\ InitWith([DefaultCfg EXCEPT !.xlock_time = d], ScenarioRows)
        /\ writesLeft = Len(ScenarioWrites)
        /\ ddlLeft = 0

NextScenario == Session \/ EnvScenarioWrite

SpecScenario == InitScenario /\ [][NextScenario]_vars

(* ------------------------------------------------------------------ *)
(* The rebuild of a table that is written again and again             *)
(* ------------------------------------------------------------------ *)
\* the row with key 1 is updated, from "a" to "z" or back
EnvUpdate ==
    CommitWrite([kind |-> "update", key |-> 1, newkey |-> 1,
                 val |-> IF SourceRows[1] = "a" THEN "z" ELSE "a"])

InitBudget ==
    \E d \in XlockTimes :
        /\ InitWith([DefaultCfg EXCEPT !.xlock_time = d], InitialRows)
        /\ writesLeft = MaxBudgetWrites
        /\ ddlLeft = 0

NextBudget == Session \/ EnvUpdate

SpecBudget == InitBudget /\ [][NextBudget]_vars

(* ------------------------------------------------------------------ *)
(* The rebuild with tablespace arguments                              *)
(* ------------------------------------------------------------------ *)
IndNames == {"t_pkey", "t_idx", "nosuch"}
TbspNames == {"valid", "pg_global", "noacl", "missing"}

\* a two-dimensional array of names with lower bounds 1 and no NULL
ArrayOf(rows) == [isnull |-> FALSE, ndim |-> 2, ncols |-> 2, lbound |-> 1,
                  nulls |-> FALSE, rows |-> rows]

\* the arrays of up to MaxRows rows, and one array for each defect of shape
ArrayArgs ==
    {ArrayOf(rows) : rows \in UNION {[1..n -> IndNames \X TbspNames] : n \in 1..MaxRows}}
    \cup {[ArrayOf(<<<<"t_pkey", "valid">>>>) EXCEPT !.ndim = 1],
          [ArrayOf(<<<<"t_pkey", "valid">>>>) EXCEPT !.ncols = 3],
          [ArrayOf(<<<<"t_pkey", "valid">>>>) EXCEPT !.lbound = 0],
          [ArrayOf(<<<<"t_pkey", "valid">>>>) EXCEPT !.nulls = TRUE]}

InitTablespace ==
    \E t \in {"pk", "pk2"}, n \in TbspNames \cup {"null"}, a \in ArrayArgs \cup {NoArray} :
        /\ InitWith([DefaultCfg EXCEPT !.tbl = t, !.tbspname = n, !.ind_tbsp = a,
                                       !.xlock_time = 500], InitialRows)
        /\ writesLeft = MaxWrites
        /\ ddlLeft = 0

SpecTablespace == InitTablespace /\ [][NextBudget]_vars

(* ------------------------------------------------------------------ *)
(* A second call of squeeze_table(), in another session               *)
(* ------------------------------------------------------------------ *)
\* the table the other call is given: the same table, another table of the
\* same database, or a table of another database
RivalTargets ==
    {[db |-> MyDatabaseId, relid |-> relid_src],
     [db |-> MyDatabaseId, relid |-> relid_other],
     [db |-> OtherDatabaseId, relid |-> relid_other]}

\* the slots this session holds
MySlots == IF MyReplicationSlot THEN {slot_name(MyDatabaseId, relid_src)} ELSE {}

\* what the steps of the other session leave alone
rivalFrame == <<cfg, pc, errmsg, locals, lock_src, lock_idx, MyReplicationSlot, reader,
                snap_hist, pg_index, pg_attribute, wal, now, writesLeft, ddlLeft, load,
                frame, hist>>

\* setup_decoding() of the other call: it fails if a slot of the name exists
RivalSetupDecoding ==
    /\ Running
    /\ rival.pc = "none"
    /\ \E t \in RivalTargets :
          LET e == ReplicationSlotCreate(slot_name(t.db, t.relid), MySlots)
          IN rival' = [pc |-> IF e # "" THEN "error" ELSE "decoding",
                       db |-> t.db, relid |-> t.relid, err |-> e]
    /\ UNCHANGED <<rivalFrame, pg_class, committed, heap, nextXid, nextOid>>

\* ReplicationSlotRelease() of the other call, after its final merge or on an
\* ERROR of it
RivalRelease ==
    /\ Running
    /\ rival.pc = "decoding"
    /\ rival' = [rival EXCEPT !.pc = "released"]
    /\ UNCHANGED <<rivalFrame, pg_class, committed, heap, nextXid, nextOid>>

\* The other call commits: if its table is the source table, the storage of
\* the table and of its indexes is replaced, under the AccessExclusiveLock the
\* other call took in its final merge.
RivalCommit ==
    /\ Running
    /\ rival.pc = "released"
    /\ rival' = [rival EXCEPT !.pc = "done"]
    /\ IF rival.db = MyDatabaseId /\ rival.relid = relid_src
       THEN /\ lock_src = NoLock /\ lock_idx = {}
            /\ SetClass(RewriteClass(nextXid))
            /\ MoveHeap
            /\ nextOid' = nextOid + 1
            /\ nextXid' = nextXid + 1
       ELSE UNCHANGED <<pg_class, committed, heap, nextXid, nextOid>>
    /\ UNCHANGED rivalFrame

NextRival == Session \/ EnvUpdate \/ RivalSetupDecoding \/ RivalRelease \/ RivalCommit

SpecRival == InitBudget /\ [][NextRival]_vars

(* ------------------------------------------------------------------ *)
(* perform_initial_load(): the loop that reads and inserts in batches *)
(* ------------------------------------------------------------------ *)
\* The sizes are scaled down: what the code counts in units of 1024 bytes is
\* counted here in units of KiloByte bytes.  int and Size do not overflow:
\* AllocSizeIsValid() keeps the array, and so i, below MaxAllocSize.
LoadModes == {"heap", "index", "sort"}    \* heap scan, index scan, heap scan and sort
TupleSizes == {1, 100}                    \* HEAPTUPLESIZE + t_len of a row, bytes
MwmValues == {16, 48, 64}                 \* maintenance_work_mem, in KiloByte units

AllocSizeIsValid(size) == size <= MaxAllocSize

\* the rows the scan under the historic snapshot returns, in the order of the
\* scan; id is the position of the row in the order of the cluster index
ScanOf(sizes, mode) ==
    [k \in 1..Len(sizes) |->
        [id |-> IF mode = "index" THEN k ELSE Len(sizes) - k + 1, size |-> sizes[k]]]

NoTuple == [id |-> 0, size |-> 0]

LoadStart(sizes, mode, mwm) ==
    [pc |-> "begin", mode |-> mode, use_sort |-> (mode = "sort"),
     maintenance_work_mem |-> mwm, scan |-> ScanOf(sizes, mode), pos |-> 0,
     batch_max_size |-> 0, tuple_array_size |-> 0, tuple_array_can_expand |-> TRUE,
     tuples |-> <<>>, tuplesort |-> {}, i |-> 0, data_size |-> 0, tup_in |-> NoTuple,
     batch_size |-> 0, rel_dst |-> <<>>,
     \* history: the sizes of the batches, a write beyond the array, Assert(i > 0)
     flushed |-> <<>>, overflow |-> FALSE, assert_failed |-> FALSE]

notLoad == <<cfg, pc, errmsg, locals, lock_src, lock_idx, MyReplicationSlot, reader,
             snap_hist, pg_class, pg_index, pg_attribute, committed, heap, wal, now,
             nextXid, nextOid, writesLeft, ddlLeft, rival, frame, hist>>

InitLoad ==
    /\ InitSession(DefaultCfg, InitialRows)
    /\ writesLeft = 0
    /\ ddlLeft = 0
    /\ \E n \in 0..MaxTuples, mode \in LoadModes, mwm \in MwmValues :
          \E sizes \in [1..n -> TupleSizes] :
              load = LoadStart(sizes, mode, mwm)
    /\ frame = NoFrame

\* batch_max_size = 1024 and palloc() of the tuple array, unless tuplesort is used
LoadBegin ==
    /\ load.pc = "begin"
    /\ load' = IF load.use_sort THEN [load EXCEPT !.pc = "batch"]
               ELSE [load EXCEPT !.pc = "batch",
                                 !.batch_max_size = InitialBatchMaxSize,
                                 !.tuple_array_size = InitialBatchMaxSize * SizeofHeapTuple]
    /\ UNCHANGED notLoad

\* while (true): tup_in = NULL, data_size = 0, and i = 0 of the for loop
LoadBatch ==
    /\ load.pc = "batch"
    /\ load' = [load EXCEPT !.pc = "for", !.tup_in = NoTuple, !.data_size = 0, !.i = 0,
                            !.tuples = <<>>]
    /\ UNCHANGED notLoad

\* the head of the for loop: the test of the memory, then heap_getnext() or
\* index_getnext()
LoadFor ==
    /\ load.pc = "for"
    /\ load' =
          IF /\ ~load.use_sort
             /\ (load.data_size + load.tuple_array_size) \div KiloByte
                   >= load.maintenance_work_mem
          THEN [load EXCEPT !.pc = "flush",
                            !.assert_failed = @ \/ ~(load.i > 0)]
          ELSE IF load.pos = Len(load.scan)
          THEN [load EXCEPT !.pc = "flush", !.tup_in = NoTuple]
          ELSE [load EXCEPT !.pc = IF load.use_sort THEN "put" ELSE "expand",
                            !.tup_in = load.scan[load.pos + 1],
                            !.pos = @ + 1]
    /\ UNCHANGED notLoad

\* tuplesort_putheaptuple(), and the i++ of the for loop
LoadPut ==
    /\ load.pc = "put"
    /\ load' = [load EXCEPT !.pc = "for",
                            !.tuplesort = @ \cup {load.tup_in},
                            !.i = @ + 1]
    /\ UNCHANGED notLoad

\* if (i == (batch_max_size - 1) && tuple_array_can_expand): repalloc() or not
LoadExpand ==
    /\ load.pc = "expand"
    /\ LET batch_max_size_new == 2 * load.batch_max_size
           tuple_array_size_new == batch_max_size_new * SizeofHeapTuple
           can == /\ AllocSizeIsValid(tuple_array_size_new)
                  /\ ~(tuple_array_size_new \div KiloByte
                         >= load.maintenance_work_mem \div 16)
       IN load' =
            IF load.i = load.batch_max_size - 1 /\ load.tuple_array_can_expand
            THEN IF can
                 THEN [load EXCEPT !.pc = "store",
                                   !.batch_max_size = batch_max_size_new,
                                   !.tuple_array_size = tuple_array_size_new]
                 ELSE [load EXCEPT !.pc = "store", !.tuple_array_can_expand = FALSE]
            ELSE [load EXCEPT !.pc = "store"]
    /\ UNCHANGED notLoad

\* a loop that leaves the last tuple of a full array out of the batch
LastTupleDropped ==
    /\ load.pc = "store"
    /\ load' = [load EXCEPT
                  !.pc = IF load.i = load.batch_max_size - 1 THEN "flush" ELSE "for",
                  !.tuples = Put(@, load.i, load.tup_in),
                  !.data_size = @ + load.tup_in.size,
                  !.i = IF load.i = load.batch_max_size - 1 THEN @ ELSE @ + 1]
    /\ UNCHANGED notLoad

\* tuples[i] = tup_in, data_size += ..., and the break if the array is full
LoadStore ==
    /\ load.pc = "store"
    /\ load' = [load EXCEPT
                  !.pc = IF load.i = load.batch_max_size - 1 THEN "flush" ELSE "for",
                  !.tuples = Put(@, load.i, load.tup_in),
                  !.overflow = @ \/ ~(load.i < load.batch_max_size),
                  !.data_size = @ + load.tup_in.size,
                  !.i = @ + 1]
    /\ UNCHANGED notLoad

\* tuplesort_performsort(), or if (i == 0) break; then batch_size = i, i = 0
LoadFlush ==
    /\ load.pc = "flush"
    /\ load' =
          IF load.use_sort
          THEN [load EXCEPT !.pc = "insert", !.batch_size = load.i, !.i = 0]
          ELSE IF load.i = 0
          THEN [load EXCEPT !.pc = "done"]
          ELSE [load EXCEPT !.pc = "insert", !.batch_size = load.i, !.i = 0,
                            !.flushed = Append(@, load.i)]
    /\ UNCHANGED notLoad

\* the tuple tuplesort_getheaptuple() returns next: the least of those left
NextSorted(S) == CHOOSE t \in S : \A u \in S : t.id <= u.id

\* one round of the inner loop: heap_insert() of the next tuple, or the break
LoadInsert ==
    /\ load.pc = "insert"
    /\ load' =
          IF load.use_sort
          THEN IF load.tuplesort = {}
               THEN [load EXCEPT !.pc = "batch_end"]
               ELSE [load EXCEPT !.rel_dst = Append(@, NextSorted(load.tuplesort)),
                                 !.tuplesort = @ \ {NextSorted(load.tuplesort)}]
          ELSE IF load.i = load.batch_size
               THEN [load EXCEPT !.pc = "batch_end"]
               ELSE [load EXCEPT !.rel_dst = Append(@, load.tuples[load.i]),
                                 !.i = @ + 1]
    /\ UNCHANGED notLoad

\* if (tup_in == NULL) break; else MemoryContextReset() and the next batch
LoadBatchEnd ==
    /\ load.pc = "batch_end"
    /\ load' = [load EXCEPT !.pc = IF load.tup_in = NoTuple THEN "done" ELSE "batch"]
    /\ UNCHANGED notLoad

NextLoad ==
    \/ LoadBegin \/ LoadBatch \/ LoadFor \/ LoadPut \/ LoadExpand \/ LoadStore
    \/ LoadFlush \/ LoadInsert \/ LoadBatchEnd

\* the function runs in one backend: it takes its next step
SpecLoad == InitLoad /\ [][NextLoad]_vars /\ WF_vars(NextLoad)

(* ------------------------------------------------------------------ *)
(* The replay of the decoded changes on the rows of the transient     *)
(* table. The function that applies them is not in this file; it is   *)
(* written here from the contract apply(events, identity_key).        *)
(* ------------------------------------------------------------------ *)
\* every step of a function that is run on its own leaves the session alone
notFrame == <<cfg, pc, errmsg, locals, lock_src, lock_idx, MyReplicationSlot, reader,
              snap_hist, pg_class, pg_index, pg_attribute, committed, heap, wal, now,
              nextXid, nextOid, writesLeft, ddlLeft, rival, load, hist>>

RowNotFound == "Failed to find target tuple"
DuplicateKey == "duplicate key value violates unique constraint"

\* a row of the transient table, in the order the rows lie in the heap
Row(k, v) == [key |-> k, val |-> v]

\* the scan of the identity index with the key values of an event
Matching(tbl, k) == {i \in 1..Len(tbl) : tbl[i].key = k}

\* the row is deleted
Remove(tbl, i) == SubSeq(tbl, 1, i - 1) \o SubSeq(tbl, i + 1, Len(tbl))

\* the row is inserted into the heap and into the identity index, which is unique
apply_insert(tbl, k, v) ==
    IF Matching(tbl, k) # {} THEN [err |-> DuplicateKey, tbl |-> tbl]
    ELSE [err |-> "", tbl |-> Append(tbl, Row(k, v))]

\* Update: an update that adds the new row image and leaves the old row
update_without_delete(tbl, e) == [err |-> "", tbl |-> Append(tbl, Row(e.newkey, e.val))]

\* Update: the row matching the old key values is located and deleted, the new
\* row image is inserted
apply_update(tbl, e) ==
    LET m == Matching(tbl, e.key)
    IN IF m = {} THEN [err |-> RowNotFound, tbl |-> tbl]
       ELSE LET r == apply_insert(Remove(tbl, CHOOSE i \in m : \A j \in m : i <= j),
                                  e.newkey, e.val)
            IN IF r.err # "" THEN [err |-> r.err, tbl |-> tbl] ELSE r

\* Delete: a delete that takes a missing row for a row already deleted
delete_if_found(tbl, e) ==
    LET m == Matching(tbl, e.key)
    IN IF m = {} THEN [err |-> "", tbl |-> tbl]
       ELSE [err |-> "", tbl |-> Remove(tbl, CHOOSE i \in m : \A j \in m : i <= j)]

\* Delete: the matching row is located and deleted
apply_delete(tbl, e) ==
    LET m == Matching(tbl, e.key)
    IN IF m = {} THEN [err |-> RowNotFound, tbl |-> tbl]
       ELSE [err |-> "", tbl |-> Remove(tbl, CHOOSE i \in m : \A j \in m : i <= j)]

\* the events another session can produce, whatever the table holds
ChangeEvents ==
    {[kind |-> "insert", key |-> k, newkey |-> k, val |-> v] : k \in WriteKeys, v \in Vals}
    \cup [kind : {"update"}, key : WriteKeys, newkey : WriteKeys, val : Vals]
    \cup {[kind |-> "delete", key |-> k, newkey |-> k, val |-> NoRow] : k \in WriteKeys}

\* the source tables the replay is run for
SourceTables ==
    {[k \in Keys |-> IF k \in WriteKeys THEN f[k] ELSE NoRow] :
        f \in [WriteKeys -> Vals \cup {NoRow}]}

\* the initial copy: the rows the snapshot shows, in the order of the scan
RECURSIVE CopyFrom(_, _)
CopyFrom(rows, k) ==
    IF k \notin Keys THEN <<>>
    ELSE (IF rows[k] = NoRow THEN <<>> ELSE <<Row(k, rows[k])>>) \o CopyFrom(rows, k + 1)

EventSeqs == UNION {[1..n -> ChangeEvents] : n \in 0..MaxFreeEvents}

\* Either the transient table is the copy of the source as of the point where
\* the capture starts and the events are the writes committed after it
\* (anchored), or the events are any events at all.
InitReplay ==
    /\ InitSession(DefaultCfg, InitialRows)
    /\ writesLeft = 0
    /\ ddlLeft = 0
    /\ load = NoLoad
    /\ \E src \in SourceTables :
          \/ frame = [fn |-> "replay", anchored |-> TRUE, src |-> src,
                      tbl |-> CopyFrom(src, 1), events |-> <<>>, pos |-> 0, err |-> ""]
          \/ \E ev \in EventSeqs :
                frame = [fn |-> "replay", anchored |-> FALSE, src |-> src,
                         tbl |-> CopyFrom(src, 1), events |-> ev, pos |-> 0, err |-> ""]

\* a write of another session commits on the source table and is decoded
ReplayWrite ==
    /\ frame.fn = "replay"
    /\ frame.anchored
    /\ Len(frame.events) < MaxEvents
    /\ \E c \in Changes(frame.src) :
          frame' = [frame EXCEPT !.src = Execute(@, c), !.events = Append(@, c)]
    /\ UNCHANGED notFrame

\* the next event is applied, or the replay ends with its error
Applied(kind, r) ==
    /\ frame.fn = "replay"
    /\ frame.err = ""
    /\ frame.pos < Len(frame.events)
    /\ frame.events[frame.pos + 1].kind = kind
    /\ frame' = IF r.err # "" THEN [frame EXCEPT !.err = r.err]
                ELSE [frame EXCEPT !.tbl = r.tbl, !.pos = @ + 1]
    /\ UNCHANGED notFrame

ReplayInsert ==
    /\ frame.fn = "replay" /\ frame.pos < Len(frame.events)
    /\ LET e == frame.events[frame.pos + 1]
       IN Applied("insert", apply_insert(frame.tbl, e.key, e.val))

ReplayUpdate ==
    /\ frame.fn = "replay" /\ frame.pos < Len(frame.events)
    /\ Applied("update", apply_update(frame.tbl, frame.events[frame.pos + 1]))

ReplayDelete ==
    /\ frame.fn = "replay" /\ frame.pos < Len(frame.events)
    /\ Applied("delete", apply_delete(frame.tbl, frame.events[frame.pos + 1]))

NextReplay == ReplayWrite \/ ReplayInsert \/ ReplayUpdate \/ ReplayDelete

SpecReplay == InitReplay /\ [][NextReplay]_vars

(* ------------------------------------------------------------------ *)
(* swap_relation_files() on two pg_class forms, lines 2517-2587        *)
(* ------------------------------------------------------------------ *)
FirstNormalTransactionId == 3
RELKIND_INDEX == "i"
RELKIND_RELATION == "r"

\* TransactionIdPrecedes(), MultiXactIdPrecedes(): the ids of the model are of
\* one epoch, where the circular comparison is the one of the integers
TransactionIdIsNormal(xid) == xid >= FirstNormalTransactionId
TransactionIdPrecedes(id1, id2) == id1 < id2
MultiXactIdIsValid(multi) == multi # 0
MultiXactIdPrecedes(multi1, multi2) == multi1 < multi2

\* the fields of a pg_class form swap_relation_files() reads or writes
Form(kind, node, persistence, frozenxid, minmxid) ==
    [relkind |-> kind, relfilenode |-> node, reltablespace |-> node,
     reltoastrelid |-> IF kind = RELKIND_INDEX THEN InvalidOid ELSE node + 1,
     relpersistence |-> persistence, relfrozenxid |-> frozenxid,
     relminmxid |-> minmxid, relallvisible |-> 1]

\* line 2534: relform1->relpersistence != relform1->relpersistence
relpersistence_differs(relform1, relform2) ==
    relform1.relpersistence # relform1.relpersistence

\* a swap that leaves the frozen xid of rel1 as it is
frozenXidKept(relform1, RecentXmin) == relform1.relfrozenxid

\* line 2552: frozenXid = RecentXmin
frozenXid(relform1, RecentXmin) == RecentXmin

\* line 2520: OidIsValid(relfilenode1) && OidIsValid(relfilenode2)
BothFilenodesValid(relfilenode1, relfilenode2) ==
    OidIsValid(relfilenode1) /\ OidIsValid(relfilenode2)

\* lines 2517-2587. "updated" tells whether CatalogTupleUpdateWithInfo() was
\* reached, "asserts" whether the assertions of lines 2553-2565 hold.
swap_relation_forms(relform1, relform2, RecentXmin, cutoffMulti) ==
    IF ~BothFilenodesValid(relform1.relfilenode, relform2.relfilenode)
    THEN [err |-> "cannot swap mapped relations", updated |-> FALSE, asserts |-> TRUE,
          relform1 |-> relform1, relform2 |-> relform2]
    ELSE IF relpersistence_differs(relform1, relform2)
    THEN [err |-> "relpersistence does not match", updated |-> FALSE, asserts |-> TRUE,
          relform1 |-> relform1, relform2 |-> relform2]
    ELSE LET swapped1 == [relform1 EXCEPT !.relfilenode = relform2.relfilenode,
                                          !.reltablespace = relform2.reltablespace,
                                          !.reltoastrelid = relform2.reltoastrelid,
                                          !.relallvisible = 0]
             swapped2 == [relform2 EXCEPT !.relfilenode = relform1.relfilenode,
                                          !.reltablespace = relform1.reltablespace,
                                          !.reltoastrelid = relform1.reltoastrelid]
         IN IF relform1.relkind # RELKIND_INDEX
            THEN [err |-> "", updated |-> TRUE,
                  asserts |->
                      /\ TransactionIdIsNormal(frozenXid(relform1, RecentXmin))
                      /\ ~TransactionIdPrecedes(frozenXid(relform1, RecentXmin),
                                                relform2.relfrozenxid)
                      /\ MultiXactIdIsValid(cutoffMulti)
                      /\ ~MultiXactIdPrecedes(cutoffMulti, relform2.relminmxid),
                  relform1 |-> [swapped1 EXCEPT
                                   !.relfrozenxid = frozenXid(relform1, RecentXmin),
                                   !.relminmxid = cutoffMulti],
                  relform2 |-> swapped2]
            ELSE [err |-> "", updated |-> TRUE, asserts |-> TRUE,
                  relform1 |-> swapped1, relform2 |-> swapped2]

\* The two relations of a swap and what the server knows when it is called.
\* xmin is the xmin of the snapshot of the statement that calls
\* squeeze_table(): no VACUUM that runs during the call moves relfrozenxid
\* past it, and no snapshot taken later has an xmin before it. The transient
\* relation got its relfrozenxid (RecentXmin) and relminmxid (the oldest
\* MultiXactId) when the call created it. An index has neither.
InitSwap ==
    /\ InitSession(DefaultCfg, InitialRows)
    /\ load = NoLoad
    /\ writesLeft = 0
    /\ ddlLeft = 0
    /\ \E kind \in {RELKIND_RELATION, RELKIND_INDEX},
          node1 \in {InvalidOid, 10}, node2 \in {InvalidOid, 20},
          p1 \in {"p", "u"}, p2 \in {"p", "u"},
          xmin \in FirstNormalTransactionId + 1..MaxXid - 1,
          multi \in 1..MaxMulti - 1 :
         \E frozen1 \in FirstNormalTransactionId..xmin, recent \in xmin..MaxXid - 1,
            minmxid1 \in 1..multi :
             LET heap_ == kind # RELKIND_INDEX
                 form1 == Form(kind, node1, p1, IF heap_ THEN frozen1 ELSE 0,
                               IF heap_ THEN minmxid1 ELSE 0)
                 form2 == Form(kind, node2, p2, IF heap_ THEN recent ELSE 0,
                               IF heap_ THEN multi ELSE 0)
             IN frame = [fn |-> "swap", pc |-> "call", err |-> "", xmin |-> xmin,
                         RecentXmin |-> recent, oldestMulti |-> multi,
                         relform1 |-> form1, relform2 |-> form2,
                         pre1 |-> form1, pre2 |-> form2]

\* VACUUM of the source table commits: relfrozenxid and relminmxid advance,
\* not past the oldest xmin and the oldest MultiXactId in use
SwapVacuum ==
    /\ frame.fn = "swap" /\ frame.pc = "call"
    /\ frame.relform1.relkind # RELKIND_INDEX
    /\ \E x \in frame.relform1.relfrozenxid..frame.xmin,
          m \in frame.relform1.relminmxid..frame.oldestMulti :
         /\ <<x, m>> # <<frame.relform1.relfrozenxid, frame.relform1.relminmxid>>
         /\ frame' = [frame EXCEPT !.relform1.relfrozenxid = x, !.relform1.relminmxid = m,
                                   !.pre1.relfrozenxid = x, !.pre1.relminmxid = m]
    /\ UNCHANGED notFrame

\* the session takes a snapshot (GetSnapshotData() sets RecentXmin), the oldest
\* MultiXactId in use advances
SwapSnapshot ==
    /\ frame.fn = "swap" /\ frame.pc = "call"
    /\ \E x \in frame.RecentXmin..MaxXid, m \in frame.oldestMulti..MaxMulti :
         /\ <<x, m>> # <<frame.RecentXmin, frame.oldestMulti>>
         /\ frame' = [frame EXCEPT !.RecentXmin = x, !.oldestMulti = m]
    /\ UNCHANGED notFrame

\* swap_relation_files(r1, r2); a failed assertion ends the server process of
\* a build that has assertions
SwapFiles ==
    /\ frame.fn = "swap" /\ frame.pc = "call"
    /\ LET r == swap_relation_forms(frame.relform1, frame.relform2, frame.RecentXmin,
                                    frame.oldestMulti)
       IN \E next \in AfterAssert(r.asserts, IF r.err = "" THEN "swapped" ELSE "error") :
            frame' = [frame EXCEPT !.pc = next, !.err = r.err,
                                   !.relform1 = IF next = "crashed" THEN @ ELSE r.relform1,
                                   !.relform2 = IF next = "crashed" THEN @ ELSE r.relform2]
    /\ UNCHANGED notFrame

NextSwap == SwapVacuum \/ SwapSnapshot \/ SwapFiles

SpecSwap == InitSwap /\ [][NextSwap]_vars

(* ------------------------------------------------------------------ *)
(* swap_toast_names(), rename by rename                               *)
(* ------------------------------------------------------------------ *)
\* the index of a TOAST relation of the model
ToastIndexOf(toastrelid) == toastrelid + 1

\* the relations of the pg_toast schema a call of swap_toast_names() can meet:
\* those of the two tables and those of tables that take no part
ToastBystanders == {350, 450}

\* the names of the TOAST relation of a table and of its index, as
\* toasting.c gives them
InitialToastNames(toastrelid, relid) ==
    IF OidIsValid(toastrelid)
    THEN (toastrelid :> ToastName(relid, "")) @@
         (ToastIndexOf(toastrelid) :> ToastName(relid, "_index"))
    ELSE <<>>

\* get_relname_relid(): the relation of the schema that has the name
NameTaken(names, name) == \E o \in DOMAIN names : names[o] = name

\* RenameRelationInternal(): fails if a relation of the name exists
RenameRelationInternal(names, oid, name) ==
    IF NameTaken(names, name)
    THEN [err |-> "relation already exists", names |-> names]
    ELSE [err |-> "", names |-> [names EXCEPT ![oid] = name]]

\* get_toast_index(): the one index of the TOAST relation
get_toast_index(toastrelid) == ToastIndexOf(toastrelid)

\* squeeze_table() line 676 passes the TOAST relation of the transient table
\* for relid1 (the source) and that of the source for relid2: the storage was
\* exchanged before.
InitToast ==
    /\ InitSession(DefaultCfg, InitialRows)
    /\ load = NoLoad
    /\ writesLeft = 0
    /\ ddlLeft = 0
    /\ \E relid1 \in {100, 101, 102}, relid2 \in {200, 201},
          has1 \in BOOLEAN, has2 \in BOOLEAN, others \in SUBSET ToastBystanders :
         LET toastrelid1 == IF has1 THEN relid2 + 50 ELSE InvalidOid
             toastrelid2 == IF has2 THEN relid1 + 50 ELSE InvalidOid
             RECURSIVE NamesOf(_)
             NamesOf(S) == IF S = {} THEN <<>>
                           ELSE LET o == CHOOSE x \in S : TRUE
                                IN InitialToastNames(o, o - 50) @@ NamesOf(S \ {o})
             names == InitialToastNames(toastrelid1, relid2) @@
                      InitialToastNames(toastrelid2, relid1) @@ NamesOf(others)
         IN frame = [fn |-> "toast", pc |-> "check", err |-> "", relid1 |-> relid1,
                     toastrelid1 |-> toastrelid1, relid2 |-> relid2,
                     toastrelid2 |-> toastrelid2, names |-> names, pre |-> names]

\* lines 2674-2681
ToastCheck ==
    /\ frame.fn = "toast" /\ frame.pc = "check"
    /\ frame' =
         IF ~OidIsValid(frame.toastrelid1)
         THEN IF OidIsValid(frame.toastrelid2)
              THEN [frame EXCEPT !.pc = "error", !.err = "Unexpected TOAST relation exists"]
              ELSE [frame EXCEPT !.pc = "done"]
         ELSE IF ~OidIsValid(frame.toastrelid2)
         THEN [frame EXCEPT !.pc = "error", !.err = "Missing TOAST relation"]
         ELSE [frame EXCEPT !.pc = "old_store"]
    /\ UNCHANGED notFrame

\* one RenameRelationInternal() of swap_toast_names()
RenameStep(at, oid, name, next) ==
    /\ frame.pc = at
    /\ LET r == RenameRelationInternal(frame.names, oid, name)
       IN frame' = IF r.err # ""
                   THEN [frame EXCEPT !.pc = "error", !.err = r.err]
                   ELSE [frame EXCEPT !.pc = next, !.names = r.names]
    /\ UNCHANGED notFrame

\* a swap that leaves the old store under its name
OldStoreNotRenamed ==
    /\ frame.fn = "toast" /\ frame.pc = "old_store"
    /\ frame' = [frame EXCEPT !.pc = "old_index"]
    /\ UNCHANGED notFrame

\* lines 2688-2689: "pg_toast_%u_" for toastrelid2
RenameOldStore ==
    /\ frame.fn = "toast"
    /\ RenameStep("old_store", frame.toastrelid2, ToastName(frame.relid1, "_"),
                  "old_index")

\* lines 2699-2702: "pg_toast_%u_index_" for the index of toastrelid2
RenameOldIndex ==
    /\ frame.fn = "toast"
    /\ RenameStep("old_index", get_toast_index(frame.toastrelid2),
                  ToastName(frame.relid1, "_index_"), "new_store")

\* lines 2705-2706: "pg_toast_%u" for toastrelid1
RenameNewStore ==
    /\ frame.fn = "toast"
    /\ RenameStep("new_store", frame.toastrelid1, ToastName(frame.relid1, ""),
                  "new_index")

\* lines 2707-2710: "pg_toast_%u_index" for the index of toastrelid1
RenameNewIndex ==
    /\ frame.fn = "toast"
    /\ RenameStep("new_index", get_toast_index(frame.toastrelid1),
                  ToastName(frame.relid1, "_index"), "done")

NextToast ==
    ToastCheck \/ RenameOldStore \/ RenameOldIndex \/ RenameNewStore \/ RenameNewIndex

SpecToast == InitToast /\ [][NextToast]_vars

(* ------------------------------------------------------------------ *)
(* get_attribute_xmins(), row by row                                  *)
(* ------------------------------------------------------------------ *)
\* The caller has read relnatts from pg_class; rows are the xmin values of
\* the pg_attribute rows with attnum > 0 of the relation, in attnum order.
\* "locked" tells whether the caller holds a lock on the relation; result is
\* the array of relnatts entries palloc() returns, 0 where nothing is written;
\* beyond are the indexes written past its end.
InitXmins ==
    /\ InitSession(DefaultCfg, InitialRows)
    /\ load = NoLoad
    /\ writesLeft = 0
    /\ ddlLeft = 0
    /\ \E relnatts \in 1..MaxAttrs, locked \in BOOLEAN :
         \E rows \in [1..relnatts -> 1..2] :
             frame = [fn |-> "xmins", pc |-> "open", err |-> "", locked |-> locked,
                      relnatts |-> relnatts, rows |-> rows, n |-> 0,
                      result |-> [i \in 1..relnatts |-> 0], beyond |-> {}]

\* ALTER TABLE ... ADD COLUMN of another session commits after the caller has
\* read pg_class and before the scan of pg_attribute takes its snapshot
XminsAddColumn ==
    /\ frame.fn = "xmins" /\ frame.pc = "open"
    /\ ~frame.locked
    /\ Len(frame.rows) < MaxAttrs + 2
    /\ frame' = [frame EXCEPT !.rows = Append(@, 3)]
    /\ UNCHANGED notFrame

\* systable_beginscan(): the scan sees the rows committed by now
XminsBeginScan ==
    /\ frame.fn = "xmins" /\ frame.pc = "open"
    /\ frame' = [frame EXCEPT !.pc = "scan"]
    /\ UNCHANGED notFrame

\* One round of the loop, lines 1007-1026: i = attnum - 1 is n, the test is
\* "n++ > relnatts", then result[i] is written. A write past the end of the
\* array is undefined: it lands in the slack of the chunk, or it damages the
\* memory that follows and the server process ends.
XminsNextTuple ==
    /\ frame.fn = "xmins" /\ frame.pc = "scan"
    /\ frame.n < Len(frame.rows)
    /\ LET i == frame.n
       IN IF frame.n > frame.relnatts
          THEN frame' = [frame EXCEPT !.pc = "error", !.n = @ + 1,
                                      !.err = "Relation has too many attributes"]
          ELSE IF i < frame.relnatts
          THEN frame' = [frame EXCEPT !.n = @ + 1, !.result[i + 1] = frame.rows[i + 1]]
          ELSE \E next \in {"scan", "crashed"} :
                  frame' = [frame EXCEPT !.pc = next, !.n = @ + 1,
                                         !.beyond = @ \cup {i}]
    /\ UNCHANGED notFrame

\* the scan is exhausted: Assert(relnatts == n), line 1028, and return
XminsReturn ==
    /\ frame.fn = "xmins" /\ frame.pc = "scan"
    /\ frame.n = Len(frame.rows)
    /\ \E next \in AfterAssert(frame.relnatts = frame.n, "returned") :
          frame' = [frame EXCEPT !.pc = next]
    /\ UNCHANGED notFrame

NextXmins == XminsAddColumn \/ XminsBeginScan \/ XminsNextTuple \/ XminsReturn

SpecXmins == InitXmins /\ [][NextXmins]_vars

(* ------------------------------------------------------------------ *)
(* The calls of squeeze_table() one session makes, one after another  *)
(* ------------------------------------------------------------------ *)
\* the calls differ from the default in how they are made, not in the table
CallConfigs ==
    {c \in Configs :
        \A f \in DOMAIN DefaultCfg \ {"trapped", "xlock_time", "privileged"} :
            c[f] = DefaultCfg[f]}

InitCalls ==
    \E c \in CallConfigs :
        /\ InitSession(c, InitialRows)
        /\ load = NoLoad
        /\ frame = [fn |-> "calls", calls |-> 1, leftover |-> FALSE]
        /\ writesLeft = MaxCallWrites
        /\ ddlLeft = MaxCallDDL

\* The call has returned, or its ERROR has been handled (by the session, or by
\* the PL/pgSQL block that trapped it), and the session calls squeeze_table()
\* again: the locals are new, the catalog, the storage and MyReplicationSlot
\* are what the call before has left.
NextCall ==
    /\ frame.fn = "calls"
    /\ pc \in {"done", "error"}
    /\ frame.calls < MaxCalls
    /\ frame' = [frame EXCEPT !.calls = @ + 1, !.leftover = MyReplicationSlot]
    /\ pc' = "start"
    /\ errmsg' = ""
    /\ cat_state' = <<>>
    /\ ident_idx_src' = InvalidOid
    /\ indexes_src' = <<>>
    /\ indexes_dst' = <<>>
    /\ relid_dst' = InvalidOid
    /\ i_attempt' = 0
    /\ source_finalized' = FALSE
    /\ success' = FALSE
    /\ t_end' = <<>>
    /\ end_of_wal' = 0
    /\ reader' = 0
    /\ snap_hist' = <<>>
    /\ wal' = <<>>
    /\ hist' = [initRows |-> SourceRows, startpos |-> 0, applied |-> <<>>,
                ddl |-> <<>>, calls |-> 0, t_start |-> 0, backlog |-> 0,
                held |-> 0, swaps |-> 0, lock_call |-> 0, unlock_call |-> 0,
                pre |-> <<>>]
    /\ UNCHANGED <<cfg, lock_src, lock_idx, MyReplicationSlot, pg_class, pg_index,
                   pg_attribute, committed, heap, now, nextXid, nextOid, writesLeft,
                   ddlLeft, rival, load>>

NextCalls == Session \/ EnvWrite \/ EnvDDL \/ NextCall

SpecCalls == InitCalls /\ [][NextCalls]_vars

(* ------------------------------------------------------------------ *)
(* What the properties below are stated with                          *)
(* ------------------------------------------------------------------ *)
\* the rows of the source table after the first n committed writes
RECURSIVE RowsAt(_)
RowsAt(n) == IF n = 0 THEN hist.initRows ELSE Execute(RowsAt(n - 1), wal[n])

\* how often the write at WAL position i has been replayed
Times(i) == Cardinality({n \in DOMAIN hist.applied : hist.applied[n] = i})

\* the rows of the transient table are those of the storage created for it
BeforeLoad == {"start", "get_catalog_state", "check_identity", "tablespace",
               "setup_decoding", "create_transient_table", "open_source", "check1",
               "initial_load"}
SwapPcs == {"swap_heap", "swap_toast_names", "swap_indexes"}
FinalMergePcs == {"pfm_lock", "pfm_lock_idx", "pfm_deadline", "pfm_check", "pfm_flush",
                  "pfm_drain", "pfm_drained", "pfm_timed_out", "pfm_catchup", "pfm_return"}
CheckpointPcs == {"check1", "check2", "pfm_check"}

StructuralDDL == {n \in DOMAIN hist.ddl : hist.ddl[n] \in StructuralKinds}

(* ------------------------------------------------------------------ *)
(* C1                                                                 *)
(* ------------------------------------------------------------------ *)
\* C1: every write committed by another session is reflected in the rebuilt
\* table exactly once. The historic snapshot shows exactly the writes up to
\* the point it was built at; each later write is replayed exactly once, in
\* commit order, as soon as the decoding has passed it, and never a write the
\* snapshot already shows; the transient table holds the result; and when the
\* rebuild returns, no write is left unreplayed.
C1_ExactlyOnce ==
    /\ snap_hist # <<>> => snap_hist = RowsAt(hist.startpos)
    /\ \A i \in 1..Len(wal) :
          Times(i) = IF i > hist.startpos /\ i <= reader THEN 1 ELSE 0
    /\ \A m, n \in DOMAIN hist.applied : m < n => hist.applied[m] < hist.applied[n]
    /\ (pc \notin BeforeLoad /\ OidIsValid(relid_dst) /\ relid_dst \in DOMAIN heap)
          => heap[relid_dst] = RowsAt(reader)
    /\ pc = "done" => reader = Len(wal)

\* a rebuild has returned with one write in the initial copy and one replayed
C1_Witness ==
    /\ pc = "done"
    /\ hist.startpos = 1
    /\ hist.applied = <<2>>

(* ------------------------------------------------------------------ *)
(* C2                                                                 *)
(* ------------------------------------------------------------------ *)
ScenarioResult == [k \in Keys |-> CASE k = 2 -> "z" [] k = 3 -> "c" [] k = 4 -> "d"
                                     [] OTHER -> NoRow]

\* C2: after a successful rebuild the rows of the table are those the source
\* table had at the end marker of the successful final-merge attempt, and no
\* write committed after that marker; the three writes of the scenario give
\* {(2,z), (3,c), (4,d)} wherever in the rebuild each of them commits.
C2_FinalRows ==
    pc = "done" =>
        /\ SourceRows = RowsAt(end_of_wal)
        /\ end_of_wal = Len(wal)
        /\ Len(wal) = Len(ScenarioWrites) => SourceRows = ScenarioResult

\* a rebuild has returned, the update committed before the snapshot, the
\* delete before the exclusive lock and the insert after a failed attempt
C2_Witness ==
    /\ pc = "done"
    /\ writesLeft = 0
    /\ hist.startpos = 1
    /\ hist.calls >= 2
    /\ SourceRows = ScenarioResult

(* ------------------------------------------------------------------ *)
(* C3                                                                 *)
(* ------------------------------------------------------------------ *)
\* C3: once a structural DDL has committed after the capture of the
\* fingerprint, no checkpoint passes and the swap is never reached.
C3_Sensitivity ==
    /\ [][(pc \in CheckpointPcs /\ pc' \notin {pc, "error"}) => StructuralDDL = {}]_vars
    /\ [](pc \in SwapPcs \cup {"drop_transient", "return", "done"} => StructuralDDL = {})

(* ------------------------------------------------------------------ *)
(* C4                                                                 *)
(* ------------------------------------------------------------------ *)
\* the fingerprint captured at the start compares equal to the catalog of now
FingerprintMatches ==
    check_catalog_changes(cat_state, NoLock, pg_class, pg_index, pg_attribute) = ""

IndexKinds == {"create_index", "drop_index", "invalidate_index", "reindex", "alter_index"}

\* the DDL that replaces a catalog row the fingerprint has recorded
DetectedKinds ==
    (StructuralKinds \cup {"create_trigger"})
        \ (IF cat_state.relninds = 0 THEN IndexKinds ELSE {})

\* the change committed by a step of another session: while the fingerprint
\* matches, a row change keeps it matching and a DDL of one of the kinds makes
\* it differ, a DDL of another kind does not
FingerprintTells(kinds) ==
    (cat_state # <<>> /\ hist.swaps = 0 /\ FingerprintMatches) =>
        /\ wal' # wal => FingerprintMatches'
        /\ hist'.ddl # hist.ddl =>
              (FingerprintMatches' <=> hist'.ddl[Len(hist'.ddl)] \notin kinds)

SessionTouched ==
    \E o \in DOMAIN committed : o \notin DOMAIN pg_class \/ pg_class[o] # committed[o]

ErrPreventedByXlockTime == "\"squeeze_max_xlock_time\" prevented squeeze from completion"

TransientGone ==
    /\ \A o \in DOMAIN pg_class :
          /\ o # relid_dst \/ ~OidIsValid(relid_dst)
          /\ pg_class[o].owner # relid_dst \/ ~OidIsValid(relid_dst)
          /\ pg_class[o].relname # TransientName
    /\ DOMAIN heap \subseteq CommittedStorage

\* C6: once the rebuild has returned or failed, the replication slot and the
\* transient table with its TOAST relation and indexes no longer exist.
C6_CleanupOnExit ==
    pc \in {"done", "error"} => (~MyReplicationSlot /\ TransientGone)

(* ------------------------------------------------------------------ *)
(* C7                                                                 *)
(* ------------------------------------------------------------------ *)
\* C7: perform_final_merge() is called at most 4 times; it is not called
\* again after a call has succeeded; the swap is reached only after a call
\* has succeeded; and when the loop ends without a success the rebuild fails
\* with the error of squeeze_max_xlock_time, having swapped nothing.
C7_BoundedLoop ==
    /\ [](hist.calls <= 4)
    /\ [](pc \in FinalMergePcs => ~source_finalized /\ hist.calls = i_attempt + 1)
    /\ [](pc \in SwapPcs \cup {"drop_transient", "return", "done"} => source_finalized /\ success)
    /\ [](errmsg = ErrPreventedByXlockTime =>
             pc = "error" /\ hist.calls = 4 /\ hist.swaps = 0 /\ ~SessionTouched)
    /\ [][(pc = "after_loop" /\ ~source_finalized /\ pc' # pc) =>
             (pc' = "error" /\ errmsg' = ErrPreventedByXlockTime)]_vars

\* four attempts have failed and the rebuild has ended with the error
C7_Witness ==
    /\ pc = "error"
    /\ errmsg = ErrPreventedByXlockTime
    /\ hist.calls = 4
    /\ hist.unlock_call = 4

(* ------------------------------------------------------------------ *)
(* C8                                                                 *)
(* ------------------------------------------------------------------ *)
\* C8: an attempt gives up only when its backlog does not fit into
\* squeeze_max_xlock_time (so that an attempt whose backlog fits succeeds),
\* and when it gives up the lock has not been held longer than that.
C8_LockBudget ==
    pc = "pfm_timed_out" =>
        /\ hist.backlog * EventCostMs >= cfg.xlock_time
        /\ now - hist.t_start <= 1000 * cfg.xlock_time

(* ------------------------------------------------------------------ *)
(* C9                                                                 *)
(* ------------------------------------------------------------------ *)
\* C9: the deadline of the drain is squeeze_max_xlock_time milliseconds after
\* the time read under the exclusive locks, its microseconds within
\* 0..999999; there is no deadline if squeeze_max_xlock_time is 0.
C9_Deadline ==
    pc \in {"pfm_check", "pfm_flush", "pfm_drain", "pfm_drained", "pfm_timed_out"} =>
        IF cfg.xlock_time = 0 THEN t_end = <<>>
        ELSE /\ t_end # <<>>
             /\ t_end[2] \in 0..(USECS_PER_SEC - 1)
             /\ t_end[1] * USECS_PER_SEC + t_end[2] = hist.t_start + 1000 * cfg.xlock_time

(* ------------------------------------------------------------------ *)
(* C10                                                                *)
(* ------------------------------------------------------------------ *)
\* C10: whenever the storage is swapped, a final-merge attempt has succeeded
\* and the session holds AccessExclusiveLock on the source table and on every
\* index of it, taken in that attempt and not released since.
C10_SwapUnderLock ==
    pc \in SwapPcs =>
        /\ source_finalized /\ success
        /\ lock_src = AccessExclusiveLock
        /\ SourceIndexOids \subseteq lock_idx
        /\ hist.lock_call = hist.calls
        /\ hist.unlock_call < hist.calls

\* the index files are about to be swapped, in the second attempt's lock
C10_Witness ==
    /\ pc = "swap_indexes"
    /\ hist.calls = 2
    /\ hist.unlock_call = 1
    /\ Len(indexes_src) > 0

(* ------------------------------------------------------------------ *)
(* C11                                                                *)
(* ------------------------------------------------------------------ *)
\* C11: when the rebuild has returned, the pg_class row of the source table
\* holds the storage identifier, the tablespace and the TOAST relation the
\* transient table had before the swap, every source index holds the storage
\* identifier and the tablespace of its transient counterpart, the TOAST
\* relation belongs to the source table under its canonical name, the
\* transient table, its indexes and the old TOAST relation are gone from the
\* catalog and the storage the table had before exists no longer.
C11_SwapExchanges ==
    pc = "done" =>
        LET pre == hist.pre
            src == committed[relid_src]
        IN /\ src.relfilenode = pre[relid_dst].relfilenode
           /\ src.reltablespace = pre[relid_dst].reltablespace
           /\ src.reltoastrelid = pre[relid_dst].reltoastrelid
           /\ src.relfilenode # pre[relid_src].relfilenode
           /\ src.relname = pre[relid_src].relname
           /\ OidIsValid(src.reltoastrelid) =>
                 /\ src.reltoastrelid # pre[relid_src].reltoastrelid
                 /\ committed[src.reltoastrelid].owner = relid_src
                 /\ committed[src.reltoastrelid].relname = ToastName(relid_src, "")
                 /\ pre[relid_src].reltoastrelid \notin DOMAIN committed
           /\ \A n \in 1..Len(indexes_src) :
                 /\ committed[indexes_src[n]].relfilenode = pre[indexes_dst[n]].relfilenode
                 /\ committed[indexes_src[n]].reltablespace = pre[indexes_dst[n]].reltablespace
                 /\ committed[indexes_src[n]].owner = relid_src
                 /\ indexes_dst[n] \notin DOMAIN committed
           /\ relid_dst \notin DOMAIN committed
           /\ TransientGone
           /\ pre[relid_src].relfilenode \notin DOMAIN heap
           /\ DOMAIN heap = {src.relfilenode}
           /\ heap[src.relfilenode] = RowsAt(Len(wal))

\* a rebuild into another tablespace has returned, for a table with a TOAST
\* relation and rows written while it ran
C11_Witness ==
    /\ pc = "done"
    /\ cfg.tbspname = "valid"
    /\ committed[relid_src].reltablespace = OtherTablespace
    /\ committed[relid_src].reltoastrelid = relid_dst + 1
    /\ Len(wal) = MaxWrites

(* ------------------------------------------------------------------ *)
(* C12                                                                *)
(* ------------------------------------------------------------------ *)
\* which of the heap (with its TOAST relation) and the indexes of the source
\* table have the storage of the transient counterpart in a catalog
SwappedParts(class) ==
    {class[relid_src].relfilenode = hist.pre[relid_dst].relfilenode}
    \cup (IF OidIsValid(hist.pre[relid_src].reltoastrelid)
          THEN {class[relid_src].reltoastrelid = hist.pre[relid_dst].reltoastrelid}
          ELSE {})
    \cup {class[indexes_src[n]].relfilenode = hist.pre[indexes_dst[n]].relfilenode :
             n \in 1..Len(indexes_src)}

\* some parts are swapped and some are not
HalfSwapped(class) == hist.pre # <<>> /\ SwappedParts(class) = {TRUE, FALSE}

\* C12: the catalog other sessions read never shows a mixture of old and new
\* storage; while the catalog of the rebuild itself is such a mixture, or
\* differs at all from what the others see, the session holds
\* AccessExclusiveLock on the table and on every index, so that no reader
\* with a lock compatible with a shared lock is admitted; and the storage of
\* the heap, of the TOAST relation and of all indexes changes for the others
\* in one step, the commit.
C12_SwapAtomic ==
    /\ [](~HalfSwapped(committed))
    /\ []((HalfSwapped(pg_class) \/ SessionTouched) =>
             /\ lock_src = AccessExclusiveLock
             /\ Range(indexes_src) \subseteq lock_idx
             /\ SourceIndexOids \subseteq lock_idx)
    /\ [][(committed'[relid_src].relfilenode # committed[relid_src].relfilenode
            /\ hist'.ddl = hist.ddl)
           => (pc' = "done" /\ SwappedParts(committed') = {TRUE}
               /\ SwappedParts(committed) = {FALSE})]_vars

\* the heap is swapped and the indexes are not yet: the rebuild sees a
\* mixture under its exclusive locks, the others the old storage
C12_Witness ==
    /\ pc = "swap_indexes"
    /\ HalfSwapped(pg_class)
    /\ ~HalfSwapped(committed)
    /\ lock_src = AccessExclusiveLock
    /\ Len(wal) > 0

(* ------------------------------------------------------------------ *)
(* C13                                                                *)
(* ------------------------------------------------------------------ *)
RivalOnSameTable == rival.db = MyDatabaseId /\ rival.relid = relid_src

\* C13: two calls for the same table never have their slots at the same
\* time; the call that comes to setup_decoding() while the other holds its
\* slot fails there, with no transient table created and no change replayed.
C13_OneRebuildPerTable ==
    /\ [](~(MyReplicationSlot /\ rival.pc = "decoding" /\ RivalOnSameTable))
    /\ [][(pc = "setup_decoding" /\ rival.pc = "decoding" /\ RivalOnSameTable
            /\ pc' # pc)
           => (pc' = "error" /\ errmsg' = ErrSlotExists)]_vars
    /\ [][(rival.pc = "none" /\ rival'.pc # "none" /\ MyReplicationSlot
            /\ rival'.db = MyDatabaseId /\ rival'.relid = relid_src)
           => (rival'.pc = "error" /\ rival'.err = ErrSlotExists)]_vars
    /\ [](errmsg = ErrSlotExists =>
             /\ pc = "error"
             /\ ~MyReplicationSlot
             /\ relid_dst = InvalidOid
             /\ snap_hist = <<>>
             /\ hist.applied = <<>>
             /\ \A o \in DOMAIN pg_class : pg_class[o].relname # TransientName)

\* the call has failed in setup_decoding() while the other call for the same
\* table holds its slot
C13_Witness ==
    /\ pc = "error"
    /\ errmsg = ErrSlotExists
    /\ rival.pc = "decoding"
    /\ RivalOnSameTable

(* ------------------------------------------------------------------ *)
(* C14                                                                *)
(* ------------------------------------------------------------------ *)
\* C14: when the two calls are for different tables of the same database,
\* neither fails because of the slot of the other.
C14_Independent ==
    (rival.db = MyDatabaseId /\ rival.relid # relid_src) =>
        (errmsg # ErrSlotExists /\ rival.err # ErrSlotExists)

(* ------------------------------------------------------------------ *)
(* C15                                                                *)
(* ------------------------------------------------------------------ *)
\* the relation is not an ordinary, permanent, unshared, unmapped user table
\* or is in use by the calling session
NotEligible ==
    \/ cfg.relkind # "r"
    \/ cfg.relpersistence # "p"
    \/ cfg.relisshared
    \/ cfg.mapped
    \/ cfg.system
    \/ cfg.in_use

EligibilityErrors ==
    {"is not a table", "is not a regular table", "is shared relation",
     "is mapped relation", "is not user relation",
     "is being used by active queries in this session"}

\* C15: a call for a relation that is not eligible fails in its first step,
\* with the error of the first failing prerequisite: no fingerprint has been
\* captured, no slot and no object created and the catalog is untouched; and
\* no later step of any call raises one of these errors.
C15_EligibilityUpfront ==
    /\ [](NotEligible =>
             /\ pc \in {"start", "error"}
             /\ cat_state = <<>>
             /\ ~MyReplicationSlot
             /\ relid_dst = InvalidOid
             /\ nextOid = FirstFreeOid
             /\ pg_class = InitialClass(cfg)
             /\ committed = InitialClass(cfg)
             /\ pc = "error" => errmsg \in EligibilityErrors)
    /\ [](errmsg \in EligibilityErrors => NotEligible)
    /\ [][pc # "start" => errmsg' = errmsg \/ errmsg' \notin EligibilityErrors]_vars

\* the call has failed for a table a cursor of the session is open on
C15_Witness ==
    /\ pc = "error"
    /\ cfg.in_use
    /\ errmsg = "is being used by active queries in this session"
    /\ cat_state = <<>>

(* ------------------------------------------------------------------ *)
(* C16                                                                *)
(* ------------------------------------------------------------------ *)
\* replica identity NOTHING, DEFAULT with no valid primary key, or FULL
NoUsableIdentity ==
    \/ cfg.relreplident = REPLICA_IDENTITY_NOTHING
    \/ /\ cfg.relreplident = REPLICA_IDENTITY_DEFAULT
       /\ ~\E r \in InitialIndexes(cfg.tbl) : r.indisprimary /\ r.ok
    \/ cfg.relreplident = REPLICA_IDENTITY_FULL

IdentityErrors ==
    {"Table has no identity index", "Replica identity \"full\" not supported"}

\* C16: a call for a table with replica identity NOTHING, with DEFAULT and
\* no identity index, or with FULL never gets beyond the identity tests: it
\* has no slot, no snapshot and no transient table in any state, and the
\* identity tests, when reached, end it with their error.
C16_IdentityRequired ==
    /\ [](NoUsableIdentity =>
             /\ pc \in {"start", "get_catalog_state", "check_identity", "error"}
             /\ ~MyReplicationSlot
             /\ snap_hist = <<>>
             /\ relid_dst = InvalidOid
             /\ \A o \in DOMAIN pg_class : pg_class[o].relname # TransientName)
    /\ [][(pc = "check_identity" /\ NoUsableIdentity /\ pc' # pc)
           => (pc' = "error" /\ errmsg' \in IdentityErrors)]_vars
    /\ [](errmsg \in IdentityErrors => NoUsableIdentity)

\* the call has failed for a table with an index but without a primary key
C16_Witness ==
    /\ pc = "error"
    /\ cfg.tbl = "nopk"
    /\ cfg.relreplident = REPLICA_IDENTITY_DEFAULT
    /\ errmsg = "Table has no identity index"
    /\ cat_state # <<>>

(* ------------------------------------------------------------------ *)
(* C17                                                                *)
(* ------------------------------------------------------------------ *)
EarlyPcs == {"start", "get_catalog_state", "check_identity", "tablespace"}

\* the errors of the tablespace arguments raised before setup_decoding()
ArgumentErrors ==
    {ErrNoTablespace,
     "Index-to-tablespace mappings must be text[][] array",
     "The index-to-tablespace mappings must have 2 columns",
     "Each dimension of the index-to-tablespace mappings must start at 1",
     "The index-to-tablespace array is must not contain NULLs",
     "Table has no index", "Duplicate tablespace mapping for index"}

\* a row of the array names an index the table does not have
NamesUnknownIndex ==
    \E i \in DOMAIN cfg.ind_tbsp.rows :
        cfg.ind_tbsp.rows[i][1] \notin {IndexName(r.indexrelid) : r \in InitialIndexes(cfg.tbl)}

\* two rows of the array name the same index
NamesIndexTwice ==
    \E i, j \in DOMAIN cfg.ind_tbsp.rows :
        i # j /\ cfg.ind_tbsp.rows[i][1] = cfg.ind_tbsp.rows[j][1]

\* the tablespace arguments have been processed without an error
MappingAccepted == ~cfg.ind_tbsp.isnull /\ indexes_src # <<>>

\* C17: an array that names an index the fingerprint does not hold, or an
\* index twice, is rejected with an error before the call goes on; an
\* accepted array gives one mapping entry per row, in the order of the rows,
\* each entry the index of the fingerprint that has the name of the row and
\* the tablespace of the row, and no two entries for the same index.
C17_MappingValidated ==
    /\ []((~cfg.ind_tbsp.isnull /\ (NamesUnknownIndex \/ NamesIndexTwice)) =>
             /\ pc \in EarlyPcs \cup {"error"}
             /\ indexes_src = <<>>
             /\ pc = "error" => errmsg \in ArgumentErrors)
    /\ [](MappingAccepted =>
             LET m == tbsp_info_indexes
                 rows == cfg.ind_tbsp.rows
             IN /\ Len(m) = Len(rows)
                /\ \A i \in DOMAIN m :
                      /\ m[i].index \in {cat_state.indexes[j].oid : j \in 1..cat_state.relninds}
                      /\ IndexName(m[i].index) = rows[i][1]
                      /\ m[i].tablespace = get_tablespace_oid(rows[i][2])
                      /\ OidIsValid(m[i].tablespace)
                /\ \A i, j \in DOMAIN m : i # j => m[i].index # m[j].index)

\* a rebuild has returned that was given a mapping for each of the two
\* indexes, in the reverse of the order of the fingerprint
C17_Witness ==
    /\ pc = "done"
    /\ MappingAccepted
    /\ Len(tbsp_info_indexes) = 2
    /\ tbsp_info_indexes[1].index > tbsp_info_indexes[2].index

(* ------------------------------------------------------------------ *)
(* C18                                                                *)
(* ------------------------------------------------------------------ *)
\* a tablespace argument is invalid in one of the ways of the claim
InvalidTablespaceArgs ==
    \/ cfg.tbspname \in {"missing", "pg_global", "noacl"}
    \/ /\ ~cfg.ind_tbsp.isnull
       /\ \/ cfg.ind_tbsp.ndim # 2 \/ cfg.ind_tbsp.ncols # 2 \/ cfg.ind_tbsp.lbound # 1
          \/ cfg.ind_tbsp.nulls
          \/ NamesUnknownIndex \/ NamesIndexTwice
          \/ \E i \in DOMAIN cfg.ind_tbsp.rows :
                cfg.ind_tbsp.rows[i][2] \in {"missing", "pg_global", "noacl"}

\* C18: with an invalid tablespace argument the call never gets beyond the
\* processing of the arguments: it has no slot, no snapshot and no transient
\* table in any state.
C18_InvalidArgsFailEarly ==
    InvalidTablespaceArgs =>
        /\ pc \in EarlyPcs \cup {"error"}
        /\ ~MyReplicationSlot
        /\ snap_hist = <<>>
        /\ relid_dst = InvalidOid

(* ------------------------------------------------------------------ *)
(* C19                                                                *)
(* ------------------------------------------------------------------ *)
\* pg_class has a row of the transient table
TransientExists == \E o \in DOMAIN pg_class : pg_class[o].relname = TransientName

\* C19: setup_decoding() of a caller that is neither superuser nor has the
\* replication privilege ends with the permission error and nothing else; such
\* a caller never has a replication slot, a snapshot or a transient table;
\* and the permission error is raised for no other caller.
C19_PermissionRequired ==
    /\ [][(pc = "setup_decoding" /\ ~cfg.privileged /\ pc' # pc) =>
             (pc' = "error" /\ errmsg' = ErrPermission)]_vars
    /\ [](~cfg.privileged =>
             /\ pc \in EarlyPcs \cup {"setup_decoding", "error", "crashed"}
             /\ ~MyReplicationSlot
             /\ snap_hist = <<>>
             /\ relid_dst = InvalidOid
             /\ ~TransientExists)
    /\ [](errmsg = ErrPermission => ~cfg.privileged)

\* the call of an unprivileged caller has failed in setup_decoding()
C19_Witness ==
    /\ ~cfg.privileged
    /\ pc = "error"
    /\ errmsg = ErrPermission
    /\ cat_state # <<>>

(* ------------------------------------------------------------------ *)
(* C20                                                                *)
(* ------------------------------------------------------------------ *)
\* the steps of perform_final_merge() in the order of the code
FinalMergeOrder ==
    {<<"pfm_lock", "pfm_lock_idx">>, <<"pfm_lock_idx", "pfm_deadline">>,
     <<"pfm_deadline", "pfm_check">>, <<"pfm_check", "pfm_flush">>,
     <<"pfm_check", "error">>, <<"pfm_flush", "pfm_drain">>,
     <<"pfm_drain", "pfm_drained">>, <<"pfm_drain", "pfm_timed_out">>,
     <<"pfm_drained", "pfm_return">>, <<"pfm_timed_out", "pfm_catchup">>,
     <<"pfm_catchup", "pfm_return">>, <<"pfm_return", "after_loop">>,
     <<"pfm_return", "loop_test">>}

\* AccessExclusiveLock is held on the source table and on each of its indexes
AllLocksHeld ==
    lock_src = AccessExclusiveLock /\ Range(indexes_src) \subseteq lock_idx

\* the catalog is what the fingerprint says
FingerprintVerified ==
    check_catalog_changes(cat_state, NoLock, pg_class, pg_index, pg_attribute) = ""

\* C20: an attempt of the final merge takes its steps in one order: lock of
\* the table, lock of the indexes, check of the fingerprint, flush and end
\* marker, drain, then success with the locks kept or release of the locks.
\* The table is locked before the indexes, the check runs with all the locks
\* held, the flush and the drain run only after a check that passed, the end
\* marker is the flushed end of the log, and a drain that succeeded has
\* reached the marker.
C20_FinalMergeOrder ==
    /\ [][(pc \in FinalMergePcs /\ pc' # pc) => <<pc, pc'>> \in FinalMergeOrder]_vars
    /\ [][(pc' = "pfm_lock" /\ pc # pc') => pc = "loop_test"]_vars
    /\ [](pc = "pfm_lock_idx" => lock_src = AccessExclusiveLock)
    /\ [](pc \in {"pfm_deadline", "pfm_check", "pfm_flush", "pfm_drain", "pfm_drained"}
             => AllLocksHeld)
    /\ [](pc \in {"pfm_flush", "pfm_drain", "pfm_drained", "pfm_timed_out"}
             => FingerprintVerified)
    /\ [](pc \in {"pfm_drain", "pfm_drained"} => end_of_wal = GetFlushRecPtr(wal))
    /\ [](pc = "pfm_drained" => reader >= end_of_wal)
    /\ [](pc \in {"pfm_catchup"} => lock_src = NoLock /\ lock_idx = {})

\* the second attempt has drained the log after the first one released the locks
C20_Witness ==
    /\ pc = "pfm_drained"
    /\ hist.calls = 2
    /\ hist.unlock_call = 1
    /\ AllLocksHeld
    /\ end_of_wal > hist.startpos

(* ------------------------------------------------------------------ *)
(* C21                                                                *)
(* ------------------------------------------------------------------ *)
\* C21: an attempt whose drain ran out of time goes on to release the locks
\* and to read the rest of the log up to its end marker, with no deadline and
\* no error, and returns failure; when it returns, the session holds no lock
\* on the table or on an index, the reader is at the end marker, each change
\* up to the marker has been applied once and the transient table holds the
\* rows as of the marker; the next attempt starts from there.
C21_ReleaseAndCatchUp ==
    /\ [][(pc = "pfm_timed_out" /\ pc' # pc) => (pc' = "pfm_catchup" /\ ~success')]_vars
    /\ [][(pc = "pfm_catchup" /\ pc' # pc) => pc' = "pfm_return"]_vars
    /\ []((pc = "pfm_return" /\ ~success) =>
             /\ lock_src = NoLock
             /\ lock_idx = {}
             /\ reader = end_of_wal
             /\ \A i \in (hist.startpos + 1)..end_of_wal : Times(i) = 1
             /\ heap[relid_dst] = RowsAt(end_of_wal))
    /\ []((pc \in {"loop_test", "pfm_lock"} /\ hist.calls > 0 /\ ~source_finalized) =>
             /\ reader >= end_of_wal
             /\ heap[relid_dst] = RowsAt(reader))

\* an attempt has returned failure after its catch-up applied a change
C21_Witness ==
    /\ pc = "pfm_return"
    /\ ~success
    /\ hist.backlog = 2
    /\ reader = end_of_wal
    /\ lock_src = NoLock

(* ------------------------------------------------------------------ *)
(* C22                                                                *)
(* ------------------------------------------------------------------ *)
\* C22: a further attempt of the final merge starts only after an attempt
\* that released the locks because its drain ran out of time; a catalog that
\* differs from the fingerprint at the check under the lock ends the call
\* with an error, every step of an attempt either goes on within the attempt
\* or ends the call with an error, and a call that ended with an error takes
\* no further step.
C22_OnlyTimeoutRetried ==
    /\ [][(hist.calls' # hist.calls /\ hist.calls > 0) =>
             (/\ hist.calls' = hist.calls + 1
              /\ hist.unlock_call = hist.calls
              /\ ~success
              /\ errmsg = "")]_vars
    /\ [][(pc = "pfm_check" /\ ~FingerprintVerified /\ pc' # pc) =>
             (pc' = "error" /\ errmsg' # "" /\ hist.calls' = hist.calls)]_vars
    /\ [][(pc \in FinalMergePcs /\ errmsg' # errmsg) => pc' = "error"]_vars
    /\ [][pc = "error" => (pc' = "error" /\ hist.calls' = hist.calls
                             /\ hist.swaps' = hist.swaps)]_vars

\* the first attempt has failed at its check under the lock
C22_Witness ==
    /\ pc = "error"
    /\ hist.calls = 1
    /\ hist.lock_call = 1
    /\ hist.unlock_call = 0
    /\ ~FingerprintVerified
    /\ errmsg # ""

(* ------------------------------------------------------------------ *)
(* C23                                                                *)
(* ------------------------------------------------------------------ *)
\* the tokens of the indexes: in the fingerprint, and in the catalog now
CapturedIndexTokens ==
    {<<cat_state.indexes[n].oid, cat_state.indexes[n].xmin,
       cat_state.indexes[n].pg_class_xmin>> : n \in 1..cat_state.relninds}

CurrentIndexTokens ==
    {<<r.indexrelid, r.xmin, pg_class[r.indexrelid].xmin>> : r \in pg_index}

PgClassTokenDiffers ==
    \/ cat_state.relid \notin DOMAIN pg_class
    \/ pg_class[cat_state.relid].xmin # cat_state.pg_class_xmin

ToastTokenDiffers ==
    /\ OidIsValid(cat_state.form_class.reltoastrelid)
    /\ \/ cat_state.form_class.reltoastrelid \notin DOMAIN pg_class
       \/ pg_class[cat_state.form_class.reltoastrelid].xmin # cat_state.toast_xmin

IndexListDiffers ==
    \/ CurrentIndexTokens # CapturedIndexTokens
    \/ \E r \in pg_index : ~r.ok

AttributeTokensDiffer == pg_attribute # cat_state.attr_xmins

\* the errors of the four comparisons, in the order of the comparisons
PgClassErrors ==
    {"Table no longer exists", "Incompatible DDL or heap rewrite performed concurrently"}

AttributeErrors ==
    {"Table definition changed concurrently", "Relation has too many attributes"}

\* C23: with the fingerprint of a call that passed its first tests and has
\* not swapped yet, check_catalog_changes() told AccessExclusiveLock reports
\* nothing whatever the catalog holds; told a weaker lock it reports nothing
\* exactly if the pg_class token of the table, that of its TOAST relation,
\* the index list and the tokens of the columns all equal the fingerprint,
\* and otherwise the error of the first of these comparisons that differs.
C23_CheckCatalogChanges ==
    (cat_state # <<>> /\ ~cat_state.invalid_index /\ hist.swaps = 0) =>
        /\ check_catalog_changes(cat_state, AccessExclusiveLock, pg_class, pg_index,
                                 pg_attribute) = ""
        /\ \A l \in {NoLock, AccessShareLock} :
              LET e == check_catalog_changes(cat_state, l, pg_class, pg_index, pg_attribute)
              IN IF PgClassTokenDiffers THEN e \in PgClassErrors
                 ELSE IF ToastTokenDiffers THEN e \in PgClassErrors
                 ELSE IF IndexListDiffers THEN e = "Concurrent change of index detected"
                 ELSE IF AttributeTokensDiffer THEN e \in AttributeErrors
                 ELSE e = ""

(* ------------------------------------------------------------------ *)
(* C24                                                                *)
(* ------------------------------------------------------------------ *)
\* the next step of the session processes a change with lock_held =
\* AccessExclusiveLock, that is with check_catalog_changes() returning at once
VerificationSkippedNext ==
    pc \in {"pfm_drain", "pfm_catchup"} /\ reader < end_of_wal

\* C24: whenever the session is about to process a change with the check of
\* the catalog switched off by lock_held = AccessExclusiveLock, it holds
\* AccessExclusiveLock on the source table and on each index of it.
C24_SkipOnlyUnderLock ==
    VerificationSkippedNext => AllLocksHeld

(* ------------------------------------------------------------------ *)
(* C25                                                                *)
(* ------------------------------------------------------------------ *)
\* the steps of squeeze_table() up to the swap, in the order of the code
MainLine ==
    <<"start", "get_catalog_state", "check_identity", "tablespace", "setup_decoding",
      "create_transient_table", "open_source", "check1", "initial_load", "check2",
      "build_indexes", "identity_key", "find_ident_idx", "drain", "index_check",
      "loop_test", "pfm_lock", "pfm_lock_idx", "pfm_deadline", "pfm_check", "pfm_flush",
      "pfm_drain", "pfm_drained", "pfm_return", "after_loop", "cleanup_decoding",
      "swap_heap">>

Position(p) == CHOOSE n \in DOMAIN MainLine : MainLine[n] = p

\* pg_class rows of indexes of the transient table
TransientIndexes ==
    {o \in DOMAIN pg_class : pg_class[o].relkind = "i" /\ pg_class[o].owner = relid_dst}

\* C25: up to the swap the call takes its steps in the order of the code (a
\* drain may repeat, an attempt that timed out goes through the release and
\* the catch-up back to the loop), so a call that swaps has taken each of the
\* three checks; the initial load is entered only from the first check, with
\* the table locked in share mode and the catalog equal to the fingerprint;
\* the index build only from the second check, with the catalog equal to
\* the fingerprint; the flush of an attempt only from the check under the
\* exclusive locks, with the catalog equal to the fingerprint; and the
\* transient table has no index until the second check has passed.
C25_ThreeVerifications ==
    /\ [][(pc' # pc /\ pc \in Range(MainLine) /\ pc' \in Range(MainLine)) =>
             \/ Position(pc') = Position(pc) + 1
             \/ pc = "loop_test" /\ pc' = "after_loop"
             \/ pc = "pfm_return" /\ pc' = "loop_test"]_vars
    /\ [][(pc' # pc /\ pc' \in {"pfm_timed_out", "pfm_catchup"}) =>
             pc \in {"pfm_drain", "pfm_timed_out"}]_vars
    /\ [][(pc' # pc /\ pc \in {"pfm_timed_out", "pfm_catchup"}) =>
             pc' \in {"pfm_catchup", "pfm_return", "error"}]_vars
    /\ [][(pc' # pc /\ pc' = "initial_load") =>
             (pc = "check1" /\ lock_src = AccessShareLock /\ FingerprintMatches)]_vars
    /\ [][(pc' # pc /\ pc' = "build_indexes") =>
             (pc = "check2" /\ lock_src = AccessShareLock /\ FingerprintMatches)]_vars
    /\ [][(pc' # pc /\ pc' = "pfm_flush") =>
             (pc = "pfm_check" /\ AllLocksHeld /\ FingerprintMatches)]_vars
    /\ [](pc \in BeforeLoad \cup {"check2"} =>
             (indexes_dst = <<>> /\ TransientIndexes = {}))
    /\ [](pc \in SwapPcs => pc \notin BeforeLoad /\ hist.calls > 0)

\* the swap is reached by a call whose transient table has its indexes
C25_Witness ==
    /\ pc = "swap_heap"
    /\ hist.swaps = 0
    /\ TransientIndexes # {}
    /\ Len(hist.ddl) = 0
    /\ hist.calls = 1

(* ------------------------------------------------------------------ *)
(* C26                                                                *)
(* ------------------------------------------------------------------ *)
\* the steps between heap_open(relid_src, AccessShareLock) and the heap_close()
SharedPhase == {"check1", "initial_load", "check2", "build_indexes", "identity_key"}

\* the steps between that heap_close() and the first LockRelationOid()
UnlockedPhase == {"find_ident_idx", "drain", "index_check", "loop_test", "pfm_lock"}

\* C26: from the first check through the initial load and the index build to
\* the build of the identity key the session holds AccessShareLock on the
\* source table and no lock on an index, and another session that has a
\* write to do can do it; after that and until the exclusive lock is
\* requested the session holds no lock on the table; and the exclusive lock
\* is only ever requested by a session that holds no lock on the table.
C26_SharedLockOnly ==
    /\ [](pc \in SharedPhase => (lock_src = AccessShareLock /\ lock_idx = {}))
    /\ []((pc \in SharedPhase /\ writesLeft > 0) => ENABLED EnvWrite)
    /\ [](pc \in UnlockedPhase => (lock_src = NoLock /\ lock_idx = {}))
    /\ [][(lock_src' = AccessExclusiveLock /\ lock_src # AccessExclusiveLock) =>
             (pc = "pfm_lock" /\ lock_src = NoLock)]_vars
    /\ [][(lock_idx' # {} /\ lock_idx = {}) =>
             (pc = "pfm_lock_idx" /\ lock_src = AccessExclusiveLock)]_vars

\* a write of another session has committed during the index build phase
C26_Witness ==
    /\ pc = "build_indexes"
    /\ lock_src = AccessShareLock
    /\ Len(wal) > hist.startpos
    /\ heap[relid_dst] = snap_hist
    /\ heap[relid_src] # snap_hist

(* ------------------------------------------------------------------ *)
(* C27                                                                *)
(* ------------------------------------------------------------------ *)
\* a request of mode requested by another session waits for a lock of mode
\* held of this session
LockConflicts(held, requested) ==
    \/ held = AccessExclusiveLock /\ requested # NoLock
    \/ held # NoLock /\ requested = AccessExclusiveLock

\* the steps between heap_close() at line 348 and heap_open() at line 457
DecodingSetupPhase ==
    {"check_identity", "tablespace", "setup_decoding", "create_transient_table",
     "open_source"}

\* C27: from the release of the first share lock until the source is opened
\* again, and so while setup_decoding() creates the slot and looks for its
\* start point, the session holds no lock on the source table or on an index
\* of it: no lock request of another transaction, AccessExclusiveLock
\* included, waits for the session while the session may be waiting for that
\* transaction to finish; and the slot is created by a session without locks.
C27_NoLockDuringSetup ==
    /\ [](pc \in DecodingSetupPhase =>
             /\ lock_src = NoLock
             /\ lock_idx = {}
             /\ \A mode \in {AccessShareLock, AccessExclusiveLock} :
                   ~LockConflicts(lock_src, mode))
    /\ [][(MyReplicationSlot' /\ ~MyReplicationSlot) =>
             (pc = "setup_decoding" /\ lock_src = NoLock /\ lock_src' = NoLock)]_vars

\* the slot has been created after a write of another session, with no lock held
C27_Witness ==
    /\ pc = "create_transient_table"
    /\ MyReplicationSlot
    /\ hist.startpos > 0
    /\ lock_src = NoLock

(* ------------------------------------------------------------------ *)
(* C28                                                                *)
(* ------------------------------------------------------------------ *)
ErrIndexChange == "Concurrent change of index detected"

\* pg_index has a row of the source table that is not valid, ready and live
SomeIndexNotOk == \E r \in pg_index : ~r.ok

\* C28: the step between the drain before the lock and the loop of the final
\* merge ends the call with 'Concurrent change of index detected' if an
\* index of the source is not valid, ready and live, with no lock requested
\* and no attempt made, and goes on to the loop otherwise; so the first
\* request of the exclusive lock is made only by a call that saw all the
\* indexes valid, ready and live after its drain.
C28_IndexFlagsChecked ==
    /\ [][(pc = "index_check" /\ SomeIndexNotOk /\ pc' # pc) =>
             (/\ pc' = "error"
              /\ errmsg' = ErrIndexChange
              /\ hist.calls' = 0
              /\ hist.lock_call' = 0
              /\ lock_src' = NoLock /\ lock_idx' = {})]_vars
    /\ [][(pc = "index_check" /\ ~SomeIndexNotOk /\ pc' # pc) => pc' = "loop_test"]_vars
    /\ [][(pc' = "loop_test" /\ hist.calls = 0 /\ pc' # pc) =>
             (pc = "index_check" /\ ~SomeIndexNotOk /\ reader >= end_of_wal
              /\ lock_src = NoLock)]_vars
    /\ [](pc = "index_check" => (lock_src = NoLock /\ lock_idx = {} /\ hist.calls = 0))

\* the call has failed at that step: an index was invalidated when the drain
\* had nothing to read
C28_Witness ==
    /\ pc = "error"
    /\ errmsg = ErrIndexChange
    /\ indexes_dst # <<>>
    /\ wal = <<>>
    /\ hist.calls = 0
    /\ SomeIndexNotOk

(* ------------------------------------------------------------------ *)
(* C29                                                                *)
(* ------------------------------------------------------------------ *)
LoadedIds == {load.rel_dst[k].id : k \in DOMAIN load.rel_dst}

\* C29: whatever the number and the sizes of the rows, the memory limit and
\* the kind of scan, perform_initial_load() never inserts a row twice; when
\* it returns, the scan is exhausted and the transient table holds each row
\* of the scan once, in the order of the scan if nothing is sorted and in the
\* order of the cluster index otherwise; every batch of the unsorted modes
\* holds at least one row and at most as many as the array has room for, no
\* tuple is written beyond the array, the memory test never ends a batch
\* that has no row; and the function returns.
C29_InitialLoad ==
    /\ [](load.pc # "none" =>
             /\ \A m, n \in DOMAIN load.rel_dst : m # n => load.rel_dst[m] # load.rel_dst[n]
             /\ \A m, n \in DOMAIN load.rel_dst :
                   m # n => load.rel_dst[m].id # load.rel_dst[n].id
             /\ Range(load.rel_dst) \subseteq {load.scan[k] : k \in 1..load.pos}
             /\ ~load.overflow
             /\ ~load.assert_failed
             /\ \A k \in DOMAIN load.flushed :
                   load.flushed[k] >= 1 /\ load.flushed[k] <= load.batch_max_size
             /\ load.use_sort => load.flushed = <<>>)
    /\ [](load.pc = "done" =>
             /\ load.pos = Len(load.scan)
             /\ Len(load.rel_dst) = Len(load.scan)
             /\ Range(load.rel_dst) = Range(load.scan)
             /\ ~load.use_sort => load.rel_dst = load.scan
             /\ load.use_sort =>
                   \A k \in DOMAIN load.rel_dst : load.rel_dst[k].id = k)
    /\ <>(load.pc = "done")

\* a load has returned that had a batch ended by the memory limit and then a
\* batch that filled an array that could not be enlarged, the scan ending
\* with that batch
C29_Witness ==
    /\ load.pc = "done"
    /\ ~load.use_sort
    /\ Len(load.flushed) = 2
    /\ load.flushed[1] < load.batch_max_size
    /\ load.flushed[2] = load.batch_max_size
    /\ ~load.tuple_array_can_expand
    /\ Len(load.rel_dst) = load.flushed[1] + load.flushed[2]

(* ------------------------------------------------------------------ *)
(* C30                                                                *)
(* ------------------------------------------------------------------ *)
\* the steps between build_transient_indexes() and the drop of the transient table
IndexesBuiltPcs ==
    {"identity_key", "find_ident_idx", "drain", "index_check", "loop_test", "after_loop",
     "cleanup_decoding", "drop_transient"} \cup FinalMergePcs \cup SwapPcs

\* the steps at which ident_idx_dst has been looked up
IdentityFoundPcs == IndexesBuiltPcs \ {"identity_key", "find_ident_idx"}

\* the definition the source index had when the rebuild started
SourceDefinition(ind_oid) ==
    [ii |-> ind_oid, rd_rel |-> ind_oid,
     indisprimary |-> \E r \in InitialIndexes(cfg.tbl) :
                         r.indexrelid = ind_oid /\ r.indisprimary]

\* C30: the index set of the transient table matches that of the source one
\* for one. Once build_transient_indexes() has returned, indexes_dst has as
\* many entries as indexes_src, these are distinct and are exactly the indexes
\* of the transient table, and indexes_dst[i] has been created from the
\* definition of indexes_src[i]; the index used for the identity lookups on
\* the transient table is the one at the position of the identity index of the
\* source; and the swap has exchanged the storage of indexes_src[i] and
\* indexes_dst[i] for every i and that of no other index.
C30_IndexSetsMatch ==
    /\ pc \in IndexesBuiltPcs =>
          /\ Len(indexes_dst) = Len(indexes_src)
          /\ Len(indexes_src) = cat_state.relninds
          /\ \A n, k \in 1..Len(indexes_dst) : indexes_dst[n] = indexes_dst[k] => n = k
          /\ {indexes_dst[n] : n \in 1..Len(indexes_dst)} = TransientIndexes
          /\ \A n \in 1..Len(indexes_dst) :
                pg_class[indexes_dst[n]].indexdef = SourceDefinition(indexes_src[n])
    /\ pc \in IdentityFoundPcs =>
          /\ ident_idx_dst \in TransientIndexes
          /\ pg_class[ident_idx_dst].indexdef = SourceDefinition(ident_idx_src)
          /\ \A n \in 1..Len(indexes_src) :
                indexes_dst[n] = ident_idx_dst <=> indexes_src[n] = ident_idx_src
    /\ pc = "drop_transient" =>
          /\ \A n \in 1..Len(indexes_src) :
                /\ pg_class[indexes_src[n]].relfilenode = hist.pre[indexes_dst[n]].relfilenode
                /\ pg_class[indexes_dst[n]].relfilenode = hist.pre[indexes_src[n]].relfilenode
          /\ \A o \in DOMAIN pg_class :
                /\ pg_class[o].relkind = "i"
                /\ \A n \in 1..Len(indexes_src) : o \notin {indexes_src[n], indexes_dst[n]}
                => pg_class[o].relfilenode = hist.pre[o].relfilenode

(* ------------------------------------------------------------------ *)
(* C31                                                                *)
(* ------------------------------------------------------------------ *)
AllRows == {Row(k, v) : k \in WriteKeys, v \in Vals}
Count(tbl, r) == Cardinality({i \in 1..Len(tbl) : tbl[i] = r})

\* a step of the replay that applies the next event or fails on it
ApplyStep == frame.fn = "replay" /\ frame' # frame /\ frame'.events = frame.events

\* the rows of the table, as the function from keys the source table is
TableOf(tbl) ==
    [k \in Keys |-> IF Matching(tbl, k) = {} THEN NoRow
                    ELSE tbl[CHOOSE i \in Matching(tbl, k) : TRUE].val]

\* C31: at every point of the replay the transient table holds at most one row
\* per value of the identity key. An Insert adds one row; an Update removes
\* exactly the one row that matches its old key values and adds the new row
\* image; a Delete removes exactly the one matching row. An Update or Delete
\* whose key matches no row ends the replay with RowNotFound, nothing is
\* applied after it, and it does not happen when the table is the copy taken
\* at the start of the capture and the events are the writes committed since:
\* such a replay ends with the rows of the source table.
C31_ReplayByIdentity ==
    /\ [](frame.fn = "replay" =>
            \A k \in WriteKeys : Cardinality(Matching(frame.tbl, k)) <= 1)
    /\ [][ApplyStep =>
            LET e == frame.events[frame.pos + 1]
                m == Matching(frame.tbl, e.key)
                gone(r) == IF e.kind # "insert" /\ \E i \in m : frame.tbl[i] = r
                           THEN 1 ELSE 0
                added(r) == IF e.kind # "delete" /\ r = Row(e.newkey, e.val) THEN 1 ELSE 0
            IN /\ (e.kind # "insert" /\ m = {}) =>
                     /\ frame'.err = RowNotFound
                     /\ frame'.tbl = frame.tbl
                     /\ frame'.pos = frame.pos
               /\ frame'.err = "" =>
                     /\ frame'.pos = frame.pos + 1
                     /\ e.kind # "insert" => Cardinality(m) = 1
                     /\ \A r \in AllRows :
                           Count(frame'.tbl, r) = Count(frame.tbl, r) - gone(r) + added(r)]_vars
    /\ [][frame.fn = "replay" /\ frame.err # "" => frame' = frame]_vars
    /\ [](frame.fn = "replay" /\ frame.anchored =>
            /\ frame.err = ""
            /\ frame.pos = Len(frame.events) => TableOf(frame.tbl) = frame.src)

\* an insert, an update that changes the key and a delete committed after the
\* copy have been replayed
C31_Witness ==
    /\ frame.fn = "replay"
    /\ frame.anchored
    /\ frame.pos = MaxEvents
    /\ {frame.events[n].kind : n \in 1..MaxEvents} = {"insert", "update", "delete"}
    /\ \E n \in 1..MaxEvents : frame.events[n].key # frame.events[n].newkey

(* ------------------------------------------------------------------ *)
(* C32                                                                *)
(* ------------------------------------------------------------------ *)
\* the event before the next one is the same Update, of a row that keeps its key
SameUpdateAgain ==
    /\ frame.fn = "replay"
    /\ frame.err = ""
    /\ frame.pos >= 1
    /\ frame.pos < Len(frame.events)
    /\ frame.events[frame.pos + 1] = frame.events[frame.pos]
    /\ frame.events[frame.pos].kind = "update"
    /\ frame.events[frame.pos].key = frame.events[frame.pos].newkey

\* C32: identity replay is idempotent. When an Update(key = K, row = R) has
\* been applied to a table that held a row with key K and the same event is
\* applied again, the second application succeeds and leaves exactly one row
\* with key K, with content R, and every other row as it was.
C32_IdempotentUpdate ==
    [][SameUpdateAgain /\ frame' # frame =>
          LET e == frame.events[frame.pos + 1]
          IN /\ frame'.err = ""
             /\ frame'.pos = frame.pos + 1
             /\ Cardinality(Matching(frame'.tbl, e.key)) = 1
             /\ \A i \in Matching(frame'.tbl, e.key) : frame'.tbl[i] = Row(e.key, e.val)
             /\ \A r \in AllRows : Count(frame'.tbl, r) = Count(frame.tbl, r)]_vars

\* the same Update has been applied twice to a table of two rows
C32_Witness ==
    /\ frame.fn = "replay"
    /\ frame.err = ""
    /\ frame.pos = 2
    /\ frame.events[1] = frame.events[2]
    /\ frame.events[1].kind = "update"
    /\ frame.events[1].key = frame.events[1].newkey
    /\ Len(frame.tbl) = 2
    /\ frame.src[frame.events[1].key] # frame.events[1].val

(* ------------------------------------------------------------------ *)
(* C33                                                                *)
(* ------------------------------------------------------------------ *)
\* C33 as stated: the transient table is created before change capture
\* begins, so it exists when the capture session (the replication slot) is
\* opened and its starting point established.
C33_TransientBeforeCapture ==
    [][~MyReplicationSlot /\ MyReplicationSlot' => TransientExists]_vars

\* C33, amended: the transient table is created after change capture has
\* begun. The slot is created, its starting point established and the
\* historic snapshot built while no transient table exists; the table is
\* created by the next step of the call, with the slot held and the reader
\* still at the starting point, and it exists when the initial load starts.
C33_TransientAfterCapture ==
    /\ [][~MyReplicationSlot /\ MyReplicationSlot' =>
             /\ ~OidIsValid(relid_dst) /\ ~OidIsValid(relid_dst')
             /\ pc = "setup_decoding" /\ pc' = "create_transient_table"
             /\ reader' = hist'.startpos
             /\ snap_hist' # <<>>]_vars
    /\ [][~TransientExists /\ TransientExists' =>
             /\ pc = "create_transient_table"
             /\ MyReplicationSlot
             /\ reader = hist.startpos
             /\ snap_hist # <<>>]_vars
    /\ [](pc = "initial_load" => TransientExists /\ MyReplicationSlot)

\* the table has been created after a write that the capture has to deliver
\* was committed
C33_Witness ==
    /\ pc = "open_source"
    /\ TransientExists
    /\ MyReplicationSlot
    /\ hist.startpos = 1
    /\ Len(wal) = 2

\* the slot the session holds when a call reaches setup_decoding() is the one
\* a call before it has left
SlotLingers == pc = "setup_decoding" /\ MyReplicationSlot

\* C38: on entry to setup_decoding() the session releases the slot a call
\* whose ERROR was trapped has left, before it creates the new one. Through
\* the calls of one session, failed and successful: a call never fails
\* because a slot of its name exists; the slot the session holds after
\* setup_decoding() is the one this call has created, its start point the end
\* of the WAL of this call; a call that fails in setup_decoding() leaves no
\* slot; a slot lingers only after a trapped ERROR and never after a call
\* that has returned. MyReplicationSlot is the one slot a session can hold.
C38_LingeringSlotCleared ==
    /\ [](errmsg # ErrSlotExists)
    /\ [][pc = "setup_decoding" /\ pc' # pc =>
             /\ pc' \in {"create_transient_table", "error"}
             /\ pc' = "create_transient_table" =>
                    /\ MyReplicationSlot'
                    /\ reader' = Len(wal)
                    /\ hist'.startpos = Len(wal)
             /\ pc' = "error" => ~MyReplicationSlot']_vars
    /\ [](pc = "done" => ~MyReplicationSlot)
    /\ [](frame.leftover => cfg.trapped)
    /\ [][NextCall => MyReplicationSlot' = MyReplicationSlot]_vars

\* a call that found the slot of a failed call has returned
C38_Witness ==
    /\ frame.fn = "calls"
    /\ frame.calls = MaxCalls
    /\ frame.leftover
    /\ pc = "done"
    /\ success

\* the step that deletes the transient relation
TransientDeleted == pc = "drop_transient" /\ pc' = "return"

\* C34, as stated: the transient relation is deleted after the swap and
\* outside the exclusive-lock window; when it is deleted the session no
\* longer holds the exclusive lock on the source table.
C34_DropOutsideLockWindow ==
    [][TransientDeleted =>
          /\ hist.swaps > 0
          /\ lock_src # AccessExclusiveLock]_vars

\* C34, amended: the transient relation is deleted after the swap and inside
\* the exclusive-lock window. The session holds the AccessExclusiveLock of
\* perform_final_merge() on the source table and on its indexes when the
\* relation is deleted and afterwards; on the way from the successful merge
\* to the deletion the lock is given up by an ERROR only, and after the
\* deletion only when the transaction of the call ends.
C34_DropInsideLockWindow ==
    /\ [][TransientDeleted =>
             /\ hist.swaps > 0
             /\ TransientExists /\ ~TransientExists'
             /\ lock_src = AccessExclusiveLock /\ lock_src' = AccessExclusiveLock
             /\ lock_idx = Range(indexes_src) /\ lock_idx' = lock_idx]_vars
    /\ [][source_finalized /\ lock_src = AccessExclusiveLock
                           /\ lock_src' # AccessExclusiveLock =>
             pc' \in {"done", "error", "crashed"}]_vars
    /\ [](pc = "return" => lock_src = AccessExclusiveLock /\ ~TransientExists)

\* the transient relation of a table with indexes is gone and the call has not
\* returned yet
C34_Witness ==
    /\ pc = "return"
    /\ hist.swaps > 0
    /\ ~TransientExists
    /\ lock_src = AccessExclusiveLock
    /\ lock_idx # {}

\* swap_relation_files() has returned for two heap relations
HeapSwapped ==
    frame.fn = "swap" /\ frame.pc = "swapped" /\ frame.pre1.relkind # RELKIND_INDEX

PersistenceDiffers ==
    /\ frame.fn = "swap" /\ frame.pc # "call"
    /\ BothFilenodesValid(frame.pre1.relfilenode, frame.pre2.relfilenode)
    /\ frame.pre1.relpersistence # frame.pre2.relpersistence

MappedRefused ==
    (/\ frame.fn = "swap" /\ frame.pc # "call"
     /\ ~BothFilenodesValid(frame.pre1.relfilenode, frame.pre2.relfilenode)) =>
        /\ frame.pc = "error"
        /\ frame.err = "cannot swap mapped relations"
        /\ frame.relform1 = frame.pre1 /\ frame.relform2 = frame.pre2

\* no two relations of the schema carry the same name
NamesUnique(names) ==
    \A o1, o2 \in DOMAIN names : names[o1] = names[o2] => o1 = o2

\* C36: during swap_toast_names() no two relations carry the same name at any
\* intermediate step: the old store and its index are moved to the names with
\* the underscore first, and no rename finds its name taken. On completion
\* the TOAST relation of the original and its index are named
\* pg_toast_<original id> and pg_toast_<original id>_index. If exactly one of
\* the two tables has a TOAST relation the function fails with an error and
\* renames nothing.
C36_ToastNames ==
    frame.fn = "toast" =>
       /\ NamesUnique(frame.names)
       /\ frame.err # "relation already exists"
       /\ (frame.pc \in {"new_store", "new_index"} =>
             /\ frame.names[frame.toastrelid2] = ToastName(frame.relid1, "_")
             /\ frame.names[get_toast_index(frame.toastrelid2)] =
                   ToastName(frame.relid1, "_index_"))
       /\ (frame.pc = "done" /\ OidIsValid(frame.toastrelid1) =>
             /\ frame.names[frame.toastrelid1] = ToastName(frame.relid1, "")
             /\ frame.names[get_toast_index(frame.toastrelid1)] =
                   ToastName(frame.relid1, "_index"))
       /\ (frame.pc # "check"
             /\ OidIsValid(frame.toastrelid1) # OidIsValid(frame.toastrelid2) =>
             /\ frame.pc = "error"
             /\ frame.err \in {"Unexpected TOAST relation exists", "Missing TOAST relation"}
             /\ frame.names = frame.pre)
       /\ (frame.pc = "error" =>
             OidIsValid(frame.toastrelid1) # OidIsValid(frame.toastrelid2))
       /\ \A o \in DOMAIN frame.names :
             o \notin {frame.toastrelid1, frame.toastrelid2,
                       ToastIndexOf(frame.toastrelid1), ToastIndexOf(frame.toastrelid2)} =>
                frame.names[o] = frame.pre[o]

\* the names have been swapped among the TOAST relations of other tables
C36_Witness ==
    /\ frame.fn = "toast"
    /\ frame.pc = "done"
    /\ OidIsValid(frame.toastrelid1)
    /\ frame.names # frame.pre
    /\ Cardinality(DOMAIN frame.names) = 8

\* the call has passed the identity tests of lines 366-377 and is running
PastIdentityTests ==
    pc \notin {"start", "get_catalog_state", "check_identity", "error", "crashed"}

\* C39: every rebuild that passes the identity tests, whatever the replica
\* identity of the table is (USING INDEX of an index that no longer exists
\* included), has a valid identity index id and a fingerprint with at least
\* one index and one column: the assertions "relnatts >= 1", "nindexes > 0"
\* and "identity index id is valid" hold in every reachable state and the
\* identity index of the transient table is always found.
C39_IdentityAlwaysValid ==
    /\ PastIdentityTests =>
          /\ OidIsValid(ident_idx_src)
          /\ cat_state.form_class.relnatts >= 1
          /\ cat_state.relninds > 0
    /\ errmsg # "TRAP: FailedAssertion"
    /\ errmsg # "Identity index missing on the transient relation"

\* C40: get_attribute_xmins(relid, relnatts) never writes at an index >=
\* relnatts, whatever number k of rows the scan returns (a column added
\* between the check of pg_class and the scan of pg_attribute included): for
\* k > relnatts it reports "too many attributes" before any write past the
\* end; on normal return exactly relnatts entries are written, in the order
\* of the column numbers.
C40_NoWriteBeyondArray ==
    frame.fn = "xmins" =>
       /\ frame.beyond = {}
       /\ (Len(frame.rows) > frame.relnatts /\ frame.pc \notin {"open", "scan"} =>
              /\ frame.pc = "error"
              /\ frame.err = "Relation has too many attributes")
       /\ (frame.pc = "returned" =>
              /\ frame.n = frame.relnatts
              /\ frame.result = SubSeq(frame.rows, 1, frame.relnatts))
       /\ frame.pc # "crashed"

\* what holds of the function when the scan returns as many rows as the caller
\* expects
XminsOfLockedRelation ==
    (frame.fn = "xmins" /\ Len(frame.rows) = frame.relnatts) =>
       /\ frame.beyond = {}
       /\ frame.pc \notin {"error", "crashed"}
       /\ (frame.pc = "returned" => frame.result = frame.rows)
====
